---- MODULE Spec2Model ----
(***************************************************************************)
(* vancouver: the dependency-audit check (crates/vancouver).  The model    *)
(* follows src/crates/vancouver/src/check.rs and types.rs.                 *)
(*                                                                         *)
(* Text whose bytes the code inspects (version strings, delta strings) is  *)
(* a sequence of one-character strings.  Criteria and dependency names are *)
(* only compared, so they are TLA+ strings ranked by the byte order of     *)
(* Rust's String::cmp (StringsSorted).                                     *)
(***************************************************************************)
EXTENDS Integers, Sequences, FiniteSets, TLC

(***************************************************************************)
(* Bytes and strings                                                       *)
(***************************************************************************)

\* ASCII codes of the characters the inputs are written with.
Byte ==
    (" " :> 32) @@ ("-" :> 45) @@ ("." :> 46) @@ (">" :> 62) @@
    ("0" :> 48) @@ ("1" :> 49) @@ ("2" :> 50) @@ ("3" :> 51) @@ ("4" :> 52) @@
    ("5" :> 53) @@ ("6" :> 54) @@ ("7" :> 55) @@ ("8" :> 56) @@ ("9" :> 57) @@
    ("a" :> 97) @@ ("b" :> 98) @@ ("e" :> 101) @@ ("p" :> 112) @@ ("r" :> 114)

is_ascii_digit(c) == Byte[c] >= 48 /\ Byte[c] <= 57

\* u8::is_ascii_whitespace restricted to the alphabet: only the space.
is_ascii_whitespace(c) == Byte[c] = 32

\* Ordering results.
Less == "Less"
Equal == "Equal"
Greater == "Greater"

IntCmp(a, b) == IF a < b THEN Less ELSE IF a > b THEN Greater ELSE Equal

\* Ordering::then_with
ThenWith(o, next) == IF o = Equal THEN next ELSE o

\* str::cmp: lexicographic comparison of the bytes.
RECURSIVE StrCmp(_, _)
StrCmp(l, r) ==
    IF l = <<>> /\ r = <<>> THEN Equal
    ELSE IF l = <<>> THEN Less
    ELSE IF r = <<>> THEN Greater
    ELSE ThenWith(IntCmp(Byte[Head(l)], Byte[Head(r)]), StrCmp(Tail(l), Tail(r)))

\* Option<T>: None is the empty sequence, Some(x) the one-element sequence.
None == <<>>
Some(v) == <<v>>
IsSome(o) == o # <<>>
Unwrap(o) == o[1]

\* Option<String>::cmp: None sorts before every Some.
OptStrCmp(l, r) ==
    IF l = None /\ r = None THEN Equal
    ELSE IF l = None THEN Less
    ELSE IF r = None THEN Greater
    ELSE StrCmp(Unwrap(l), Unwrap(r))

\* bool::cmp: false < true.
BoolCmp(l, r) == IF l = r THEN Equal ELSE IF r THEN Less ELSE Greater

\* Every criteria and dependency name of the inputs, in String::cmp order.
StringsSorted == <<"safe-to-deploy", "yap", "yeet", "yip", "yote">>

StringRank(s) == CHOOSE i \in 1..Len(StringsSorted) : StringsSorted[i] = s

\* The elements of a set of names in ascending order (BTreeSet / BTreeMap iteration).
RECURSIVE IterSorted(_)
IterSorted(S) ==
    IF S = {} THEN <<>>
    ELSE LET m == CHOOSE x \in S : \A y \in S : StringRank(x) <= StringRank(y)
         IN <<m>> \o IterSorted(S \ {m})

(***************************************************************************)
(* types.rs: Version                                                       *)
(***************************************************************************)

Dash == [kind |-> "Dash", s |-> <<>>]
Number(s) == [kind |-> "Number", s |-> s]
String(s) == [kind |-> "String", s |-> s]

\* Number of leading characters of s that continue a Number part / a String part
\* (the position() searches of chomp).
RECURSIVE DigitRun(_)
DigitRun(s) ==
    IF s = <<>> \/ ~is_ascii_digit(Head(s)) THEN 0 ELSE 1 + DigitRun(Tail(s))

RECURSIVE StringRun(_)
StringRun(s) ==
    IF s = <<>> \/ is_ascii_digit(Head(s)) \/ Head(s) = "-" THEN 0
    ELSE 1 + StringRun(Tail(s))

\* VersionPart::chomp: None on the empty input, else the first part and the rest.
chomp(inp) ==
    IF inp = <<>> THEN None
    ELSE IF Head(inp) = "-" THEN Some([part |-> Dash, rest |-> Tail(inp)])
    ELSE IF is_ascii_digit(Head(inp))
         THEN LET p == 1 + DigitRun(Tail(inp))
              IN Some([part |-> Number(SubSeq(inp, 1, p)),
                       rest |-> SubSeq(inp, p + 1, Len(inp))])
         ELSE LET p == 1 + StringRun(Tail(inp))
              IN Some([part |-> String(SubSeq(inp, 1, p)),
                       rest |-> SubSeq(inp, p + 1, Len(inp))])

\* Version::new
RECURSIVE VersionNew(_)
VersionNew(v) ==
    LET c == chomp(v)
    IN IF c = None THEN <<>> ELSE <<Unwrap(c).part>> \o VersionNew(Unwrap(c).rest)

\* count_digits: the characters left after the leading zeros.
RECURSIVE count_digits(_)
count_digits(s) ==
    IF s = <<>> THEN 0
    ELSE IF Head(s) = "0" THEN count_digits(Tail(s))
    ELSE Len(s)

\* A part comparison that compares number runs by count_digits alone.
VersionPartCmp_DigitsOnly(l, r) ==
    IF l.kind = "Number" /\ r.kind = "Number"
    THEN IntCmp(count_digits(l.s), count_digits(r.s))
    ELSE IF l.kind = "String" /\ r.kind = "String" THEN StrCmp(l.s, r.s)
    ELSE IF l.kind = "Dash" /\ r.kind = "Dash" THEN Equal
    ELSE IF (l.kind = "Number" /\ r.kind = "String") \/ l.kind = "Dash" THEN Less
    ELSE Greater

\* impl Ord for VersionPart
VersionPartCmp(l, r) ==
    IF l.kind = "Number" /\ r.kind = "Number"
    THEN ThenWith(IntCmp(count_digits(l.s), count_digits(r.s)), StrCmp(l.s, r.s))
    ELSE IF l.kind = "String" /\ r.kind = "String" THEN StrCmp(l.s, r.s)
    ELSE IF l.kind = "Dash" /\ r.kind = "Dash" THEN Equal
    ELSE IF (l.kind = "Number" /\ r.kind = "String") \/ l.kind = "Dash" THEN Less
    ELSE Greater

\* A comparison in which the shorter of a version and its extension is always
\* the lesser.
RECURSIVE VersionCmp_ShorterFirst(_, _)
VersionCmp_ShorterFirst(self, other) ==
    IF self # <<>> /\ other # <<>>
    THEN LET o == VersionPartCmp(Head(self), Head(other))
         IN IF o = Equal THEN VersionCmp_ShorterFirst(Tail(self), Tail(other)) ELSE o
    ELSE IF self = <<>> /\ other = <<>> THEN Equal
    ELSE IF self # <<>> THEN Greater
    ELSE Less

\* impl Ord for Version
RECURSIVE VersionCmp(_, _)
VersionCmp(self, other) ==
    IF self # <<>> /\ other # <<>>
    THEN LET o == VersionPartCmp(Head(self), Head(other))
         IN IF o = Equal THEN VersionCmp(Tail(self), Tail(other)) ELSE o
    ELSE IF self # <<>> /\ Head(self) = Dash THEN Less
    ELSE IF other # <<>> /\ Head(other) = Dash THEN Greater
    ELSE IF self = <<>> /\ other = <<>> THEN Equal
    ELSE IF self # <<>> THEN Greater
    ELSE Less

\* A Display that writes nothing for a Dash.
RECURSIVE VersionToString_NoDash(_)
VersionToString_NoDash(v) ==
    IF v = <<>> THEN <<>>
    ELSE (IF Head(v).kind = "Dash" THEN <<>> ELSE Head(v).s)
         \o VersionToString_NoDash(Tail(v))

\* impl Display for VersionPart / Version
RECURSIVE VersionToString(_)
VersionToString(v) ==
    IF v = <<>> THEN <<>>
    ELSE (IF Head(v).kind = "Dash" THEN <<"-">> ELSE Head(v).s) \o VersionToString(Tail(v))

(***************************************************************************)
(* check.rs: the inputs (Config, Audits) and the compiled Rules             *)
(***************************************************************************)

\* struct Audit.  delta, version and violation are Option<String>.
Audit(criteria, delta, version, violation, allow_unused) ==
    [criteria |-> criteria, delta |-> delta, version |-> version,
     violation |-> violation, allow_unused |-> allow_unused]

\* #[derive(Ord)] on Audit: the fields in declaration order.
AuditCmp(l, r) ==
    ThenWith(IntCmp(StringRank(l.criteria), StringRank(r.criteria)),
    ThenWith(OptStrCmp(l.delta, r.delta),
    ThenWith(OptStrCmp(l.version, r.version),
    ThenWith(OptStrCmp(l.violation, r.violation),
             BoolCmp(l.allow_unused, r.allow_unused)))))

\* Iteration of a BTreeSet<Audit>: ascending in AuditCmp.
RECURSIVE IterAudits(_)
IterAudits(S) ==
    IF S = {} THEN <<>>
    ELSE LET m == CHOOSE a \in S : \A b \in S : AuditCmp(a, b) # Greater
         IN <<m>> \o IterAudits(S \ {m})

\* Iteration of a BTreeMap<String, BTreeSet<Audit>>: the (name, audit) pairs in
\* the order the nested for loops of Rules::new visit them.
RECURSIVE IterNamedAudits(_, _)
IterNamedAudits(map, names) ==
    IF names = <<>> THEN <<>>
    ELSE LET as == IterAudits(map[Head(names)])
         IN [i \in 1..Len(as) |-> [name |-> Head(names), audit |-> as[i]]]
            \o IterNamedAudits(map, Tail(names))

\* BTreeMap::insert
MapInsert(m, k, v) == [y \in DOMAIN m \cup {k} |-> IF y = k THEN v ELSE m[y]]

\* BTreeMap::get
MapGet(m, k) == IF k \in DOMAIN m THEN Some(m[k]) ELSE None

EmptyMap == <<>>

\* Position of the first "->" in s, 0 if there is none (str::split_once).
RECURSIVE FindArrow(_, _)
FindArrow(s, i) ==
    IF i + 1 > Len(s) THEN 0
    ELSE IF s[i] = "-" /\ s[i + 1] = ">" THEN i
    ELSE FindArrow(s, i + 1)

\* <[u8]>::trim_ascii
RECURSIVE trim_ascii_start(_)
trim_ascii_start(s) ==
    IF s # <<>> /\ is_ascii_whitespace(Head(s)) THEN trim_ascii_start(Tail(s)) ELSE s

RECURSIVE trim_ascii_end(_)
trim_ascii_end(s) ==
    IF s # <<>> /\ is_ascii_whitespace(s[Len(s)])
    THEN trim_ascii_end(SubSeq(s, 1, Len(s) - 1)) ELSE s

trim_ascii(s) == trim_ascii_end(trim_ascii_start(s))

\* parse_delta: Err(ParseDelta) without "->", else Ok((prev, next)).
parse_delta(delta) ==
    LET i == FindArrow(delta, 1)
    IN IF i = 0 THEN [ok |-> FALSE]
       ELSE [ok |-> TRUE,
             prev |-> VersionNew(trim_ascii(SubSeq(delta, 1, i - 1))),
             next |-> VersionNew(trim_ascii(SubSeq(delta, i + 2, Len(delta))))]

\* UsedMarker(Option<AtomicBool>)
UsedMarker(o) == o

\* struct UnusedExempt; version is the string, not the parsed Version.
UnusedExempt(name, version, criteria) ==
    [name |-> name, version |-> version, criteria |-> criteria]

\* The nested maps CriteriaMap<DepMap<BTreeMap<Version, T>>> are one map keyed by
\* the triple (criteria, name, version); a Version key is its part sequence.
Key(criteria, name, version) == <<criteria, name, version>>

\* A merge that appends the other way round: audits.criteria over config.criteria.
MergedCriteria_LedgerWins(config, audits) ==
    [c \in DOMAIN audits.criteria \cup DOMAIN config.criteria |->
        IF c \in DOMAIN audits.criteria THEN audits.criteria[c] ELSE config.criteria[c]]

\* Rules::new, criteria: audits.criteria with config.criteria appended over it.
MergedCriteria(config, audits) ==
    [c \in DOMAIN audits.criteria \cup DOMAIN config.criteria |->
        IF c \in DOMAIN config.criteria THEN config.criteria[c] ELSE audits.criteria[c]]

\* Rules::new, the loop over the merged criteria: implied_all is keyed by the
\* declared criteria only.
CompileImpliedAll(criteria) == [c \in DOMAIN criteria |-> criteria[c].implied_all]

\* A compilation that forgets to invert implies.
CompileImpliedAny_NoInversion(criteria) ==
    [c \in DOMAIN criteria |-> criteria[c].implied_any]

\* implied_any[c] collects every criteria whose implies names c and c's own
\* implied_any; the key exists as soon as either loop touched it.
CompileImpliedAny(criteria) ==
    [c \in DOMAIN criteria \cup UNION {criteria[d].implies : d \in DOMAIN criteria} |->
        {d \in DOMAIN criteria : c \in criteria[d].implies}
        \cup (IF c \in DOMAIN criteria THEN criteria[c].implied_any ELSE {})]

\* An exemption's TrustRoot whose marker ignores allow_unused.
ExemptRoot_Fresh(allow_unused) == [used |-> UsedMarker(Some(FALSE))]

\* Rules::new: the TrustRoot of an exemption, its marker starting at allow_unused.
ExemptRoot(allow_unused) == [used |-> UsedMarker(Some(allow_unused))]

\* Rules::new, the loop over config.exempt: every exemption with a version
\* inserts (and overwrites) a TrustRoot whose marker starts at allow_unused.
RECURSIVE InsertExempts(_, _)
InsertExempts(trust_roots, todo) ==
    IF todo = <<>> THEN trust_roots
    ELSE LET name == Head(todo).name
             a == Head(todo).audit
         IN IF IsSome(a.version)
            THEN InsertExempts(
                    MapInsert(trust_roots,
                              Key(a.criteria, name, VersionNew(Unwrap(a.version))),
                              ExemptRoot(a.allow_unused)),
                    Tail(todo))
            ELSE InsertExempts(trust_roots, Tail(todo))

\* Rules::new, the loop over audits.audits.  st is the construction state; the
\* first malformed delta ends the construction with Err(ParseDelta).
\* An insertion that skips a delta it cannot parse.
InsertAuditDelta_Lenient(st, name, a) ==
    IF ~IsSome(a.delta) THEN st
    ELSE LET d == parse_delta(Unwrap(a.delta))
         IN IF ~d.ok THEN st
            ELSE [st EXCEPT !.trust_deltas =
                    MapInsert(@, Key(a.criteria, name, d.next), [parent_version |-> d.prev])]

InsertAuditDelta(st, name, a) ==
    IF ~IsSome(a.delta) THEN st
    ELSE LET d == parse_delta(Unwrap(a.delta))
         IN IF ~d.ok THEN [st EXCEPT !.error = Some("ParseDelta")]
            ELSE [st EXCEPT !.trust_deltas =
                    MapInsert(@, Key(a.criteria, name, d.next), [parent_version |-> d.prev])]

\* An insertion that reports the overwritten exemption only while its marker is
\* still false.
InsertAuditVersion_UnusedOnly(st, name, a) ==
    IF ~IsSome(a.version) THEN st
    ELSE LET k == Key(a.criteria, name, VersionNew(Unwrap(a.version)))
             old == MapGet(st.trust_roots, k)
             st1 == [st EXCEPT !.trust_roots = MapInsert(@, k, [used |-> UsedMarker(None)])]
         IN IF IsSome(old) /\ Unwrap(old).used = Some(FALSE)
            THEN [st1 EXCEPT !.extra_unused =
                    @ \cup {UnusedExempt(name, Unwrap(a.version), a.criteria)}]
            ELSE st1

InsertAuditVersion(st, name, a) ==
    IF ~IsSome(a.version) THEN st
    ELSE LET k == Key(a.criteria, name, VersionNew(Unwrap(a.version)))
             old == MapGet(st.trust_roots, k)
             st1 == [st EXCEPT !.trust_roots = MapInsert(@, k, [used |-> UsedMarker(None)])]
         IN IF IsSome(old) /\ IsSome(Unwrap(old).used)
            THEN [st1 EXCEPT !.extra_unused =
                    @ \cup {UnusedExempt(name, Unwrap(a.version), a.criteria)}]
            ELSE st1

InsertAuditViolation(st, name, a) ==
    IF ~IsSome(a.violation) THEN st
    ELSE [st EXCEPT !.violations =
            @ \cup {Key(a.criteria, name, VersionNew(Unwrap(a.violation)))}]

RECURSIVE InsertAudits(_, _)
InsertAudits(st, todo) ==
    IF todo = <<>> THEN st
    ELSE LET name == Head(todo).name
             a == Head(todo).audit
             st1 == InsertAuditDelta(st, name, a)
         IN IF IsSome(st1.error) THEN st1
            ELSE InsertAudits(
                    InsertAuditViolation(InsertAuditVersion(st1, name, a), name, a),
                    Tail(todo))

\* Rules::new, default_policy
DefaultPolicy(config) ==
    [require_all |-> IF IsSome(config.default_policy.require_all)
                     THEN Unwrap(config.default_policy.require_all)
                     ELSE {"safe-to-deploy"}]

\* A resolution that gives an override without require_all the built-in
\* default instead of the resolved one.
Policies_Unresolved(config) ==
    [d \in DOMAIN config.policy |->
        [require_all |->
            IF IsSome(config.policy[d].require_all)
            THEN Unwrap(config.policy[d].require_all)
            ELSE {"safe-to-deploy"}]]

\* Rules::new, policy
Policies(config) ==
    [d \in DOMAIN config.policy |->
        [require_all |-> IF IsSome(config.policy[d].require_all)
                         THEN Unwrap(config.policy[d].require_all)
                         ELSE DefaultPolicy(config).require_all]]

\* Rules::new.  error is None for Ok(rules) and Some("ParseDelta") for the Err.
RulesNew(config, audits) ==
    LET criteria == MergedCriteria(config, audits)
        exempts == InsertExempts(EmptyMap,
                     IterNamedAudits(config.exempt, IterSorted(DOMAIN config.exempt)))
        st == InsertAudits(
                [trust_roots |-> exempts, trust_deltas |-> EmptyMap, violations |-> {},
                 extra_unused |-> {}, error |-> None],
                IterNamedAudits(audits.audits, IterSorted(DOMAIN audits.audits)))
    IN [trust_roots |-> st.trust_roots,
        trust_deltas |-> st.trust_deltas,
        violations |-> st.violations,
        extra_unused |-> st.extra_unused,
        implied_all |-> CompileImpliedAll(criteria),
        implied_any |-> CompileImpliedAny(criteria),
        default_policy |-> DefaultPolicy(config),
        policy |-> Policies(config),
        error |-> st.error]

\* Rules::get_policy
get_policy(rules, name) ==
    IF name \in DOMAIN rules.policy THEN rules.policy[name] ELSE rules.default_policy

(***************************************************************************)
(* check.rs: the resolver                                                  *)
(***************************************************************************)

Max(a, b) == IF a >= b THEN a ELSE b

\* enum CheckResult
Validated == "Validated"
Missing == "Missing"
RecursionLimitReached == "RecursionLimitReached"
Violation == "Violation"

\* The first of the keys (cr, name, version), cr running over the given criteria
\* in order, that the map holds: Option::or_else over find_map.
RECURSIVE FindKey(_, _, _, _)
FindKey(map, name, version, crs) ==
    IF crs = <<>> THEN None
    ELSE IF Key(Head(crs), name, version) \in DOMAIN map
         THEN Some(Key(Head(crs), name, version))
         ELSE FindKey(map, name, version, Tail(crs))

\* A lookup that probes the ancestors before criteria itself.
TrustRootLookup_AncestorsFirst(rules, name, version, criteria, implied_criteria) ==
    FindKey(rules.trust_roots, name, version, implied_criteria \o <<criteria>>)

\* A lookup that takes no trust root whose marker is already true.
TrustRootLookup_Unused(rules, name, version, criteria, implied_criteria) ==
    FindKey([k \in {y \in DOMAIN rules.trust_roots :
                      rules.trust_roots[y].used # Some(TRUE)} |-> rules.trust_roots[k]],
            name, version, <<criteria>> \o implied_criteria)

\* check_criteria, the trust root lookup: under criteria itself, else under the
\* ancestor criteria, closest first.  implied_criteria is the cons list as a
\* sequence, its head the most recent ancestor.
TrustRootLookup(rules, name, version, criteria, implied_criteria) ==
    FindKey(rules.trust_roots, name, version, <<criteria>> \o implied_criteria)

\* A delta lookup that probes the ancestors before criteria itself.
TrustDeltaLookup_AncestorsFirst(rules, name, version, criteria, implied_criteria) ==
    FindKey(rules.trust_deltas, name, version, implied_criteria \o <<criteria>>)

\* check_criteria, the trust delta lookup, same fallback.
TrustDeltaLookup(rules, name, version, criteria, implied_criteria) ==
    FindKey(rules.trust_deltas, name, version, <<criteria>> \o implied_criteria)

\* A violation lookup made only after the trust root lookup failed.
HasViolation_AfterTrust(rules, name, version, criteria) ==
    /\ Key(criteria, name, version) \in rules.violations
    /\ Key(criteria, name, version) \notin DOMAIN rules.trust_roots

\* check_criteria, the violation lookup.
HasViolation(rules, name, version, criteria) ==
    Key(criteria, name, version) \in rules.violations

\* A budget test that gives up one level early.
LimitReached_Early(recursion_limit) == recursion_limit <= 1

\* A budget test that gives up one level late.
LimitReached_Late(recursion_limit) == recursion_limit = -1

\* A budget test with the comparison inverted.
LimitReached_Inverted(recursion_limit) == recursion_limit # 0

\* check_criteria, the budget test made once no trust root was found.
LimitReached(recursion_limit) == recursion_limit = 0

\* A call's outcome: its CheckResult, the trust roots it called mark_used on (in
\* call order) and the depth of the check_criteria calls nested in it, itself
\* included.
Outcome(result, matched, depth) ==
    [result |-> result, matched |-> matched, depth |-> depth]

\* Rules::check_criteria, with Iterator::all over implied_all[criteria] and
\* Iterator::any over implied_any[criteria]; both stop at the first member that
\* decides them.
RECURSIVE check_criteria(_, _, _, _, _, _)
RECURSIVE IterAll(_, _, _, _, _, _)
RECURSIVE IterAny(_, _, _, _, _, _)

IterAll(rules, name, version, members, implied_criteria, recursion_limit) ==
    IF members = <<>> THEN [ok |-> TRUE, matched |-> <<>>, depth |-> 0]
    ELSE LET r == check_criteria(rules, name, version, Head(members),
                                 implied_criteria, recursion_limit)
         IN IF r.result # Validated
            THEN [ok |-> FALSE, matched |-> r.matched, depth |-> r.depth]
            ELSE LET rest == IterAll(rules, name, version, Tail(members),
                                     implied_criteria, recursion_limit)
                 IN [ok |-> rest.ok, matched |-> r.matched \o rest.matched,
                     depth |-> Max(r.depth, rest.depth)]

IterAny(rules, name, version, members, implied_criteria, recursion_limit) ==
    IF members = <<>> THEN [ok |-> FALSE, matched |-> <<>>, depth |-> 0]
    ELSE LET r == check_criteria(rules, name, version, Head(members),
                                 implied_criteria, recursion_limit)
         IN IF r.result = Validated
            THEN [ok |-> TRUE, matched |-> r.matched, depth |-> r.depth]
            ELSE LET rest == IterAny(rules, name, version, Tail(members),
                                     implied_criteria, recursion_limit)
                 IN [ok |-> rest.ok, matched |-> r.matched \o rest.matched,
                     depth |-> Max(r.depth, rest.depth)]

\* A check_criteria whose implied_all step accepts an empty set of members.
check_criteria_VacuousAll(rules, name, version, criteria, implied_criteria, recursion_limit) ==
    IF HasViolation(rules, name, version, criteria)
    THEN Outcome(Violation, <<>>, 1)
    ELSE
    LET trust == TrustRootLookup(rules, name, version, criteria, implied_criteria)
    IN IF IsSome(trust) THEN Outcome(Validated, <<Unwrap(trust)>>, 1)
    ELSE IF LimitReached(recursion_limit) THEN Outcome(RecursionLimitReached, <<>>, 1)
    ELSE
    LET delta == TrustDeltaLookup(rules, name, version, criteria, implied_criteria)
    IN IF IsSome(delta)
       THEN LET r == check_criteria(rules, name,
                                    rules.trust_deltas[Unwrap(delta)].parent_version,
                                    criteria, implied_criteria, recursion_limit - 1)
            IN Outcome(r.result, r.matched, r.depth + 1)
    ELSE
    LET cons == <<criteria>> \o implied_criteria
        all == IF criteria \in DOMAIN rules.implied_all
               THEN IterAll(rules, name, version,
                            IterSorted(rules.implied_all[criteria]),
                            cons, recursion_limit - 1)
               ELSE [ok |-> FALSE, matched |-> <<>>, depth |-> 0]
    IN IF all.ok THEN Outcome(Validated, all.matched, all.depth + 1)
    ELSE
    LET any == IF criteria \in DOMAIN rules.implied_any
               THEN IterAny(rules, name, version,
                            IterSorted(rules.implied_any[criteria]),
                            cons, recursion_limit - 1)
               ELSE [ok |-> FALSE, matched |-> <<>>, depth |-> 0]
    IN Outcome(IF any.ok THEN Validated ELSE Missing,
               all.matched \o any.matched,
               Max(all.depth, any.depth) + 1)

check_criteria(rules, name, version, criteria, implied_criteria, recursion_limit) ==
    IF HasViolation(rules, name, version, criteria)
    THEN Outcome(Violation, <<>>, 1)
    ELSE
    LET trust == TrustRootLookup(rules, name, version, criteria, implied_criteria)
    IN IF IsSome(trust) THEN Outcome(Validated, <<Unwrap(trust)>>, 1)
    ELSE IF LimitReached(recursion_limit) THEN Outcome(RecursionLimitReached, <<>>, 1)
    ELSE
    LET delta == TrustDeltaLookup(rules, name, version, criteria, implied_criteria)
    IN IF IsSome(delta)
       THEN LET r == check_criteria(rules, name,
                                    rules.trust_deltas[Unwrap(delta)].parent_version,
                                    criteria, implied_criteria, recursion_limit - 1)
            IN Outcome(r.result, r.matched, r.depth + 1)
    ELSE
    LET cons == <<criteria>> \o implied_criteria
        all == IF criteria \in DOMAIN rules.implied_all
                  /\ rules.implied_all[criteria] # {}
               THEN IterAll(rules, name, version,
                            IterSorted(rules.implied_all[criteria]),
                            cons, recursion_limit - 1)
               ELSE [ok |-> FALSE, matched |-> <<>>, depth |-> 0]
    IN IF all.ok THEN Outcome(Validated, all.matched, all.depth + 1)
    ELSE
    LET any == IF criteria \in DOMAIN rules.implied_any
               THEN IterAny(rules, name, version,
                            IterSorted(rules.implied_any[criteria]),
                            cons, recursion_limit - 1)
               ELSE [ok |-> FALSE, matched |-> <<>>, depth |-> 0]
    IN Outcome(IF any.ok THEN Validated ELSE Missing,
               all.matched \o any.matched,
               Max(all.depth, any.depth) + 1)

\* The versions of name that key a trust root or a trust delta under any criteria.
AuditedVersions(rules, name) ==
    {k[3] : k \in {y \in DOMAIN rules.trust_roots \cup DOMAIN rules.trust_deltas :
                    y[2] = name}}

\* versions.range(..version).rev(): the versions below version, greatest first.
RECURSIVE IterRev(_)
IterRev(S) ==
    IF S = {} THEN <<>>
    ELSE LET m == CHOOSE a \in S : \A b \in S : VersionCmp(a, b) # Less
         IN <<m>> \o IterRev(S \ {m})

\* A scan of the versions below version that starts from the least.
RangeBelowRev_Forward(versions, version) ==
    LET rev == IterRev({v \in versions : VersionCmp(v, version) = Less})
    IN [i \in 1..Len(rev) |-> rev[Len(rev) + 1 - i]]

RangeBelowRev(versions, version) ==
    IterRev({v \in versions : VersionCmp(v, version) = Less})

\* Rules::find_prev, the loop over the candidates.
RECURSIVE FindPrevLoop(_, _, _, _, _)
FindPrevLoop(rules, name, potentials, criteria, recursion_limit) ==
    IF potentials = <<>> THEN [prev |-> None, matched |-> <<>>]
    ELSE LET r == check_criteria(rules, name, Head(potentials), criteria, <<>>,
                                 recursion_limit)
         IN IF r.result = Validated
            THEN [prev |-> Some(Head(potentials)), matched |-> r.matched]
            ELSE LET rest == FindPrevLoop(rules, name, Tail(potentials), criteria,
                                          recursion_limit)
                 IN [prev |-> rest.prev, matched |-> r.matched \o rest.matched]

\* A find_prev that hands its whole budget to check_criteria.
find_prev_FullBudget(rules, name, version, criteria, recursion_limit) ==
    FindPrevLoop(rules, name,
                 RangeBelowRev(AuditedVersions(rules, name), version),
                 criteria, recursion_limit)

\* Rules::find_prev: the Option<Version> found and the roots marked on the way.
find_prev(rules, name, version, criteria, recursion_limit) ==
    IF recursion_limit = 0 THEN [prev |-> None, matched |-> <<>>]
    ELSE FindPrevLoop(rules, name,
                      RangeBelowRev(AuditedVersions(rules, name), version),
                      criteria, recursion_limit - 1)

\* enum Status: Passed, or Failed(fails).
Passed == [kind |-> "Passed", fails |-> <<>>]
Failed(fails) == [kind |-> "Failed", fails |-> fails]

\* struct Fail
Fail(needed, reason, prev_version) ==
    [needed |-> needed, reason |-> reason, prev_version |-> prev_version]

\* Rules::check, the filter_map over require_all.
RECURSIVE CheckRequired(_, _, _, _, _)

\* A filter_map that gives up at the first criteria that does not validate.
CheckRequired_FirstFail(rules, name, version, required, recursion_limit) ==
    IF required = <<>> THEN [fails |-> <<>>, matched |-> <<>>]
    ELSE LET c == Head(required)
             r == check_criteria(rules, name, version, c, <<>>, recursion_limit)
             rest == CheckRequired(rules, name, version, Tail(required), recursion_limit)
         IN IF r.result = Validated
            THEN [fails |-> rest.fails, matched |-> r.matched \o rest.matched]
            ELSE LET p == find_prev(rules, name, version, c, recursion_limit)
                 IN [fails |-> <<Fail(c, r.result, p.prev)>>,
                     matched |-> r.matched \o p.matched]

\* A filter_map that asks find_prev for a hint only when the reason is Missing
\* or Violation.
CheckRequired_NoHintAtLimit(rules, name, version, required, recursion_limit) ==
    IF required = <<>> THEN [fails |-> <<>>, matched |-> <<>>]
    ELSE LET c == Head(required)
             r == check_criteria(rules, name, version, c, <<>>, recursion_limit)
             rest == CheckRequired(rules, name, version, Tail(required), recursion_limit)
         IN IF r.result = Validated
            THEN [fails |-> rest.fails, matched |-> r.matched \o rest.matched]
            ELSE LET p == IF r.result = RecursionLimitReached
                          THEN [prev |-> None, matched |-> <<>>]
                          ELSE find_prev(rules, name, version, c, recursion_limit)
                 IN [fails |-> <<Fail(c, r.result, p.prev)>> \o rest.fails,
                     matched |-> r.matched \o p.matched \o rest.matched]

CheckRequired(rules, name, version, required, recursion_limit) ==
    IF required = <<>> THEN [fails |-> <<>>, matched |-> <<>>]
    ELSE LET c == Head(required)
             r == check_criteria(rules, name, version, c, <<>>, recursion_limit)
             rest == CheckRequired(rules, name, version, Tail(required), recursion_limit)
         IN IF r.result = Validated
            THEN [fails |-> rest.fails, matched |-> r.matched \o rest.matched]
            ELSE LET p == find_prev(rules, name, version, c, recursion_limit)
                 IN [fails |-> <<Fail(c, r.result, p.prev)>> \o rest.fails,
                     matched |-> r.matched \o p.matched \o rest.matched]

\* Rules::check: the Receipt and the roots marked while computing it.
check(rules, name, version, recursion_limit) ==
    LET c == CheckRequired(rules, name, version,
                           IterSorted(get_policy(rules, name).require_all),
                           recursion_limit)
    IN [receipt |-> [name |-> name, version |-> version,
                     status |-> IF c.fails = <<>> THEN Passed ELSE Failed(c.fails)],
        matched |-> c.matched]

\* A mark_used that flips the flag instead of storing true.
mark_used_Flip(trust_roots, k) ==
    IF IsSome(trust_roots[k].used)
    THEN [trust_roots EXCEPT ![k].used = Some(~Unwrap(@))]
    ELSE trust_roots

\* UsedMarker::mark_used on the trust root at key k.
mark_used(trust_roots, k) ==
    IF IsSome(trust_roots[k].used)
    THEN [trust_roots EXCEPT ![k].used = Some(TRUE)]
    ELSE trust_roots

\* Rules::unused_exempts
unused_exempts(rules) ==
    rules.extra_unused
    \cup {UnusedExempt(k[2], VersionToString(k[3]), k[1]) :
            k \in {y \in DOMAIN rules.trust_roots :
                    IsSome(rules.trust_roots[y].used)
                    /\ ~Unwrap(rules.trust_roots[y].used)}}

(***************************************************************************)
(* The inputs: bounded families of config and audits files                 *)
(***************************************************************************)

\* Bounds of the model.
MaxItems == 3
MaxDeps == 2
MaxLimit == 2
MaxCons == 1

\* Version strings.  "2" sorts below "10" as a version and above it as a string.
V1 == <<"1">>
V2 == <<"2">>
V10 == <<"1", "0">>

\* The delta field "<prev> -> <next>".
DeltaString(prev, next) == prev \o <<" ", "-", ">", " ">> \o next

\* One entry of an input file.  An input is a set of entries:
\*   audit    [[audits.<name>]] of the audits file
\*   exempt   [[exempt.<name>]] of the config
\*   criteria one member of [criteria.<criteria>].<field> of the file src; the
\*            field "table" is the table header alone, every field defaulted
\*   default  [default-policy] require-all of the config
\*   policy   [policy.<name>] of the config, require_all an Option
AuditItem(name, a) == [t |-> "audit", name |-> name, audit |-> a]
ExemptItem(name, a) == [t |-> "exempt", name |-> name, audit |-> a]
CriteriaItem(src, criteria, field, member) ==
    [t |-> "criteria", src |-> src, criteria |-> criteria, field |-> field,
     member |-> member]
DefaultPolicyItem(require_all) == [t |-> "default", require_all |-> require_all]
PolicyItem(name, require_all) == [t |-> "policy", name |-> name, require_all |-> require_all]

VersionAudits(names, crits, versions) ==
    {AuditItem(n, Audit(c, None, Some(v), None, FALSE)) :
        n \in names, c \in crits, v \in versions}

ViolationAudits(names, crits, versions) ==
    {AuditItem(n, Audit(c, None, None, Some(v), FALSE)) :
        n \in names, c \in crits, v \in versions}

DeltaAudits(names, crits, pairs) ==
    {AuditItem(n, Audit(c, Some(DeltaString(d[1], d[2])), None, None, FALSE)) :
        n \in names, c \in crits, d \in pairs}

Exempts(names, crits, versions, flags) ==
    {ExemptItem(n, Audit(c, None, Some(v), None, f)) :
        n \in names, c \in crits, v \in versions, f \in flags}

CriteriaItems(srcs, crits, fields, members) ==
    {CriteriaItem(s, c, f, m) : s \in srcs, c \in crits, f \in fields, m \in members}

\* The sets of at most k entries of U.
RECURSIVE SubsetsUpTo(_, _)
SubsetsUpTo(U, k) ==
    IF k = 0 THEN {{}}
    ELSE LET smaller == SubsetsUpTo(U, k - 1)
         IN smaller \cup {S \cup {y} : S \in smaller, y \in U}

\* A file holds one [default-policy] and one [policy.<name>] per name.
WellFormed(items) ==
    /\ Cardinality({i \in items : i.t = "default"}) <= 1
    /\ \A n \in {i.name : i \in {j \in items : j.t = "policy"}} :
          Cardinality({i \in items : i.t = "policy" /\ i.name = n}) = 1

Inputs(U, k) == {S \in SubsetsUpTo(U, k) : WellFormed(S)}

\* BTreeMap<String, Criteria> of the file src.
CriteriaOf(items, src) ==
    LET mine == {i \in items : i.t = "criteria" /\ i.src = src}
        members(c, f) == {i.member : i \in {j \in mine : j.criteria = c /\ j.field = f}}
    IN [c \in {i.criteria : i \in mine} |->
          [implies |-> members(c, "implies"),
           implied_all |-> members(c, "implied_all"),
           implied_any |-> members(c, "implied_any")]]

\* BTreeMap<String, BTreeSet<Audit>> of the entries of kind t.
AuditsOf(items, t) ==
    LET mine == {i \in items : i.t = t}
    IN [n \in {i.name : i \in mine} |-> {i.audit : i \in {j \in mine : j.name = n}}]

\* struct Config, deserialized
ConfigOf(items) ==
    [criteria |-> CriteriaOf(items, "config"),
     default_policy |->
        [require_all |->
            IF \E i \in items : i.t = "default"
            THEN Some((CHOOSE i \in items : i.t = "default").require_all)
            ELSE None],
     policy |->
        [n \in {i.name : i \in {j \in items : j.t = "policy"}} |->
            [require_all |->
                (CHOOSE i \in items : i.t = "policy" /\ i.name = n).require_all]],
     exempt |-> AuditsOf(items, "exempt")]

\* struct Audits, deserialized
AuditsFileOf(items) ==
    [criteria |-> CriteriaOf(items, "audits"),
     audits |-> AuditsOf(items, "audit")]

\* The [exempt] part of the config file as a toml_edit document: the kind of
\* the item at the key "exempt" ("Table" for an [exempt] header, for
\* [[exempt.<name>]] headers, for dotted keys and for no exemption at all,
\* "Value" for the inline table exempt = {..}) and, per name, the kind of the
\* item at that key ("ArrayOfTables" for [[exempt.<name>]], "Value" for the
\* inline array <name> = [{..}]) with the tables it holds.
Document(kind, entries) == [kind |-> kind, entries |-> entries]
Entry(kind, tables) == [kind |-> kind, tables |-> tables]

\* How a config file writes its exemptions: inline when [exempt] is an inline
\* table, arrays the names written as inline arrays.
Layout(inline, arrays) == [inline |-> inline, arrays |-> arrays]

\* Every exemption written as [[exempt.<name>]].
ArraysOfTables == Layout(FALSE, {})

\* The layouts a file with these entries can have: an inline table holds
\* inline arrays only.
Layouts(items) ==
    LET names == DOMAIN AuditsOf(items, "exempt")
    IN {Layout(FALSE, A) : A \in SUBSET names} \cup {Layout(TRUE, names)}

\* The document of the config file with these entries in this layout.
TomlOf(items, layout) ==
    LET exempt == AuditsOf(items, "exempt")
    IN Document(IF layout.inline THEN "Value" ELSE "Table",
                [n \in DOMAIN exempt |->
                    Entry(IF n \in layout.arrays THEN "Value" ELSE "ArrayOfTables",
                          exempt[n])])

\* The exempt field of the Config deserialized from a document.
ExemptOf(doc) == [n \in DOMAIN doc.entries |-> doc.entries[n].tables]

\* One (name, Version) pair of get_dependencies.
Dep(name, version) == [name |-> name, version |-> VersionNew(version)]

(***************************************************************************)
(* The check run: do_check from Rules::new to unused_exempts               *)
(***************************************************************************)

VARIABLES
    ignore_exempts,  \* args.ignore_exempts
    config,          \* the deserialized config as Rules::new receives it
    toml,            \* the [exempt] part of the config file, as a document
    audits,          \* the deserialized audits file
    dependencies,    \* get_dependencies: the (name, version) list
    recursion_limit, \* args.recursion_limit
    rules,           \* Rules, its usage markers included
    phase,           \* "checking", "joined", "error"; "call" in SpecCall
    tasks,           \* per dependency: where its rules.check call stands
    receipts,        \* the collected Vec<Receipt>, None before the collect
    unused,          \* rules.unused_exempts(), None before it is computed
    matched,         \* the trust roots mark_used was called on so far
    call,            \* SpecCall: the check_criteria call made, None before it
    error,           \* the Err that do_check returns, None while there is none
    report           \* what the process printed, wrote and exited with, None before

vars == <<ignore_exempts, config, toml, audits, dependencies, recursion_limit, rules, phase, tasks,
          receipts, unused, matched, call, error, report>>

\* The state after Rules::new(config, audits) for the given inputs: with
\* --ignore-exempts the exemptions are cleared from the config before it is
\* compiled, and stay in the file.
Constructed(items, deps, limit, ignore, layout) ==
    /\ ignore_exempts = ignore
    /\ config = IF ignore_exempts
                THEN [ConfigOf(items) EXCEPT !.exempt = EmptyMap]
                ELSE ConfigOf(items)
    /\ toml = TomlOf(items, layout)
    /\ audits = AuditsFileOf(items)
    /\ dependencies = deps
    /\ recursion_limit = limit
    /\ rules = RulesNew(config, audits)
    /\ tasks = [i \in 1..Len(deps) |-> [pc |-> "todo", pending |-> <<>>, receipt |-> None]]
    /\ receipts = None
    /\ unused = None
    /\ matched = {}
    /\ call = None
    /\ report = None

\* A worker takes dependency i and runs rules.check on it: the receipt is
\* computed, the mark_used stores it makes on the way are still to be done.
Start(i) ==
    /\ phase = "checking"
    /\ tasks[i].pc = "todo"
    /\ LET c == check(rules, dependencies[i].name, dependencies[i].version,
                      recursion_limit)
       IN tasks' = [tasks EXCEPT ![i] = [pc |-> "running", pending |-> c.matched,
                                         receipt |-> Some(c.receipt)]]
    /\ UNCHANGED <<ignore_exempts, config, toml, audits, dependencies,
                   recursion_limit, rules, phase, receipts, unused, matched,
                   call, error, report>>

\* The next trust.used.mark_used() of the check of dependency i: one relaxed
\* store of true.
MarkUsed(i) ==
    /\ phase = "checking"
    /\ tasks[i].pc = "running"
    /\ tasks[i].pending # <<>>
    /\ rules' = [rules EXCEPT !.trust_roots = mark_used(@, Head(tasks[i].pending))]
    /\ matched' = matched \cup {Head(tasks[i].pending)}
    /\ tasks' = [tasks EXCEPT ![i].pending = Tail(@)]
    /\ UNCHANGED <<ignore_exempts, config, toml, audits, dependencies,
                   recursion_limit, phase, receipts, unused, call, error,
                   report>>

\* rules.check returns the receipt of dependency i.
Finish(i) ==
    /\ phase = "checking"
    /\ tasks[i].pc = "running"
    /\ tasks[i].pending = <<>>
    /\ tasks' = [tasks EXCEPT ![i].pc = "done"]
    /\ UNCHANGED <<ignore_exempts, config, toml, audits, dependencies,
                   recursion_limit, rules, phase, receipts, unused, matched,
                   call, error, report>>

\* The parallel iterator is collected, in input order, and unused_exempts runs.
Join ==
    /\ phase = "checking"
    /\ \A i \in DOMAIN tasks : tasks[i].pc = "done"
    /\ receipts' = Some([i \in DOMAIN tasks |-> Unwrap(tasks[i].receipt)])
    /\ unused' = Some(unused_exempts(rules))
    /\ phase' = "joined"
    /\ UNCHANGED <<ignore_exempts, config, toml, audits, dependencies,
                   recursion_limit, rules, tasks, matched, call, error, report>>

\* The inputs of Spec: two criteria, two versions ("2" below "10"), every kind
\* of entry for yip and a trust root and an exemption for yap.  The lock file
\* lists MaxDeps packages, sorted as cargo writes them.
DriverCriteria == {"safe-to-deploy", "yote"}
DriverVersions == {V2, V10}

DriverItems ==
    VersionAudits({"yip"}, DriverCriteria, DriverVersions)
    \cup ViolationAudits({"yip"}, DriverCriteria, DriverVersions)
    \cup DeltaAudits({"yip"}, DriverCriteria, {<<V2, V10>>, <<V10, V2>>})
    \cup Exempts({"yip"}, DriverCriteria, DriverVersions, BOOLEAN)
    \cup VersionAudits({"yap"}, {"safe-to-deploy"}, {V2})
    \cup Exempts({"yap"}, {"safe-to-deploy"}, {V2}, {FALSE})
    \cup {i \in CriteriaItems({"config"}, DriverCriteria,
                              {"implies", "implied_all", "implied_any"},
                              DriverCriteria) : i.criteria # i.member}
    \cup {DefaultPolicyItem({"safe-to-deploy", "yote"}),
          PolicyItem("yip", Some({"yote"}))}

DriverDeps == <<Dep("yap", V2), Dep("yip", V2), Dep("yip", V10)>>

\* The layouts of the config file in Spec: [exempt] is a table, and the
\* exemptions of yap are written as an array of tables or as an inline array.
DriverLayouts(items) == {l \in Layouts(items) : ~l.inline /\ l.arrays \subseteq {"yap"}}

\* The sublists of l with k elements (all of l when it is shorter).
RECURSIVE Sublists(_, _)
Sublists(l, k) ==
    IF k = 0 \/ l = <<>> THEN {<<>>}
    ELSE IF Len(l) <= k THEN {l}
    ELSE {<<Head(l)>> \o t : t \in Sublists(Tail(l), k - 1)} \cup Sublists(Tail(l), k)

Init ==
    /\ \E items \in Inputs(DriverItems, MaxItems),
          deps \in Sublists(DriverDeps, MaxDeps),
          limit \in 0..MaxLimit :
            \E layout \in DriverLayouts(items) :
                Constructed(items, deps, limit, FALSE, layout)
    /\ error = rules.error
    /\ phase = IF IsSome(rules.error) THEN "error" ELSE "checking"

Next ==
    \/ \E i \in DOMAIN tasks : Start(i)
    \/ \E i \in DOMAIN tasks : MarkUsed(i)
    \/ \E i \in DOMAIN tasks : Finish(i)
    \/ Join

Spec == Init /\ [][Next]_vars

(***************************************************************************)
(* do_check from its arguments to the exit code                            *)
(***************************************************************************)

\* What ratchet_exempts and add_exempts leave: the document, edited in
\* place, and the Err returned, None for Ok(()).
Edited(doc, err) == [toml |-> doc, error |-> err]

\* ratchet_exempts, the test of the inner retain: the table has a version and
\* (name, version, criteria) is not in unused.
Retained(unused_set, name, a) ==
    ~(/\ IsSome(a.version)
      /\ UnusedExempt(name, Unwrap(a.version), a.criteria) \in unused_set)

\* A ratchet that drops every entry of a name that has an unused entry.
ratchet_exempts_WholeName(unused_set, doc) ==
    IF doc.kind # "Table" THEN Edited(doc, Some("TomlBorked"))
    ELSE Edited(Document("Table",
                    [n \in {y \in DOMAIN doc.entries :
                               \/ doc.entries[y].kind # "ArrayOfTables"
                               \/ \A a \in doc.entries[y].tables :
                                     Retained(unused_set, y, a)}
                        |-> doc.entries[n]]),
                None)

\* ratchet_exempts on the document: TomlBorked when "exempt" is not a table;
\* else, of every name written as an array of tables, the entries whose
\* (name, version, criteria) is in unused are dropped, and so is the name when
\* no entry is left.  A name written as an inline array is kept as it is.
ratchet_exempts(unused_set, doc) ==
    IF doc.kind # "Table" THEN Edited(doc, Some("TomlBorked"))
    ELSE LET kept == [n \in DOMAIN doc.entries |->
                        IF doc.entries[n].kind # "ArrayOfTables" THEN doc.entries[n]
                        ELSE Entry("ArrayOfTables",
                                   {a \in doc.entries[n].tables :
                                       Retained(unused_set, n, a)})]
         IN Edited(Document("Table",
                       [n \in {y \in DOMAIN doc.entries :
                                  \/ kept[y].kind # "ArrayOfTables"
                                  \/ kept[y].tables # {}}
                           |-> kept[n]]),
                   None)

\* A receipt for which only the first Fail gets a table.
PushedTables_FirstFail(r) ==
    {Audit(r.status.fails[1].needed, None, Some(VersionToString(r.version)), None, FALSE)}

\* add_exempts, the tables pushed for one failed receipt: one (version,
\* criteria = needed) per Fail.
PushedTables(r) ==
    {Audit(r.status.fails[i].needed, None, Some(VersionToString(r.version)), None, FALSE) :
        i \in DOMAIN r.status.fails}

\* add_exempts, the loop over the failed receipts: TomlBorked at the first
\* receipt whose name is not written as an array of tables.
RECURSIVE AddLoop(_, _)
AddLoop(fails, doc) ==
    IF fails = <<>> THEN Edited(doc, None)
    ELSE LET r == Head(fails)
             arr == IF r.name \in DOMAIN doc.entries THEN doc.entries[r.name]
                    ELSE Entry("ArrayOfTables", {})
         IN IF arr.kind # "ArrayOfTables" THEN Edited(doc, Some("TomlBorked"))
            ELSE AddLoop(Tail(fails),
                         Document(doc.kind,
                                  MapInsert(doc.entries, r.name,
                                            Entry("ArrayOfTables",
                                                  arr.tables \cup PushedTables(r)))))

\* add_exempts on the document: TomlBorked when "exempt" is not a table.
add_exempts(fails, doc) ==
    IF doc.kind # "Table" THEN Edited(doc, Some("TomlBorked"))
    ELSE AddLoop(fails, doc)

\* receipts.iter().filter(|r| matches!(r.status, Status::Passed)).count()
RECURSIVE CountPassed(_)
CountPassed(rs) ==
    IF rs = <<>> THEN 0
    ELSE (IF Head(rs).status = Passed THEN 1 ELSE 0) + CountPassed(Tail(rs))

\* receipts.into_iter().filter(|r| !matches!(r.status, Status::Passed))
RECURSIVE FailedReceipts(_)
FailedReceipts(rs) ==
    IF rs = <<>> THEN <<>>
    ELSE (IF Head(rs).status = Passed THEN <<>> ELSE <<Head(rs)>>)
         \o FailedReceipts(Tail(rs))

\* The config file as the process leaves it: the number of write_config calls
\* that succeeded, its text and the document of that text.  The text is
\* "whole" (the text of the document), "empty" (truncated by set_len(0) and
\* nothing written by write_all) or "partial" (truncated, and write_all wrote a
\* proper part of the text of the document before it failed); broken tells
\* that a write_config call failed after truncating the file.
ConfigFile(written, text, doc) ==
    [written |-> written, text |-> text, broken |-> text # "whole", toml |-> doc]

\* The file a rewrite leaves when it fails at the point after n successful
\* rewrites: as it was (old) when nothing was truncated yet (open in
\* open_config, read_to_string in config_mut, rewind and set_len in
\* write_config), else (write_all) empty or with a part of the text of the
\* document being written (new).
FileAfterFault(point, partial, n, old, new) ==
    IF point # "write_all" THEN ConfigFile(n, "whole", old)
    ELSE IF partial THEN ConfigFile(n, "partial", new)
    ELSE ConfigFile(n, "empty", Document("Table", EmptyMap))

\* The switches of CheckArgs that do_check reads after the checks.
CheckArgs(output, ratchet, add) ==
    [output |-> output, ratchet |-> ratchet, add_exempts |-> add]

\* The process as main leaves it: the exit code, the error printed, the JSON
\* document printed on stdout and the config file; args are the switches read,
\* None when do_check returned before reading any.
Exit(args, code, err, json, file) ==
    [args |-> args, exit_code |-> code, error |-> err, json |-> json, file |-> file]

\* A main that exits with the failure code on an Err.
Abort_Failure ==
    /\ phase = "error"
    /\ report = None
    /\ report' = Some(Exit(None, 1, error, None, ConfigFile(0, "whole", toml)))
    /\ UNCHANGED <<ignore_exempts, config, toml, audits, dependencies,
                   recursion_limit, rules, phase, tasks, receipts, unused,
                   matched, call, error>>

\* do_check returned an Err before any dependency was checked: main prints it
\* and exits with code 2.
Abort ==
    /\ phase = "error"
    /\ report = None
    /\ report' = Some(Exit(None, 2, error, None, ConfigFile(0, "whole", toml)))
    /\ UNCHANGED <<ignore_exempts, config, toml, audits, dependencies,
                   recursion_limit, rules, phase, tasks, receipts, unused,
                   matched, call, error>>

\* do_check after the receipts are collected, for the given --output, --ratchet
\* and --add-exempts; when fault is a point, the fail_at-th rewrite of the
\* config fails there (partial: write_all had written a part of the text), with
\* ConfigOpen while the file is opened and read and with ConfigWrite while it is
\* written.  A rewrite also ends with the Err of ratchet_exempts or add_exempts, after the
\* file is read and before anything is written.
Report(output, ratchet, add, fault, partial, fail_at) ==
    /\ phase = "joined"
    /\ fault = None => fail_at = 1
    /\ partial => fault = Some("write_all")
    /\ LET rs == Unwrap(receipts)
           total == Len(rs)
           passed == CountPassed(rs)
           json == IF output = "json"
                   THEN Some([dependencies |-> rs, total |-> total,
                              total_failed |-> total - passed,
                              total_passed |-> passed,
                              unused_exempts |-> Unwrap(unused)])
                   ELSE None
           fails == FailedReceipts(rs)
           doRatchet == ratchet /\ Unwrap(unused) # {}
           ratcheted == ratchet_exempts(Unwrap(unused), toml)
           n1 == IF doRatchet THEN 1 ELSE 0
           t1 == IF doRatchet THEN ratcheted.toml ELSE toml
           added == add_exempts(fails, t1)
           faultAt(n, points) == IsSome(fault) /\ Unwrap(fault) \in points /\ fail_at = n
           reading == {"open", "read_to_string"}
           writing == {"rewind", "set_len", "write_all"}
           failed(n, old, new) ==
               Exit(Some(CheckArgs(output, ratchet, add)), 2,
                    Some(IF Unwrap(fault) \in reading THEN "ConfigOpen"
                         ELSE "ConfigWrite"),
                    json, FileAfterFault(Unwrap(fault), partial, n, old, new))
           args == Some(CheckArgs(output, ratchet, add))
           out ==
             IF doRatchet /\ faultAt(1, reading)
             THEN failed(0, toml, toml)
             ELSE IF doRatchet /\ IsSome(ratcheted.error)
             THEN Exit(args, 2, ratcheted.error, json, ConfigFile(0, "whole", toml))
             ELSE IF doRatchet /\ faultAt(1, writing)
             THEN failed(0, toml, t1)
             ELSE IF fails = <<>>
             THEN Exit(args, 0, None, json, ConfigFile(n1, "whole", t1))
             ELSE IF add
                  THEN IF faultAt(n1 + 1, reading)
                       THEN failed(n1, t1, t1)
                       ELSE IF IsSome(added.error)
                       THEN Exit(args, 2, added.error, json, ConfigFile(n1, "whole", t1))
                       ELSE IF faultAt(n1 + 1, writing)
                       THEN failed(n1, t1, added.toml)
                       ELSE Exit(args, 3, None, json,
                                 ConfigFile(n1 + 1, "whole", added.toml))
             ELSE Exit(args, 1, None, json, ConfigFile(n1, "whole", t1))
       IN /\ report' = Some(out)
          /\ error' = out.error
    /\ phase' = "exited"
    /\ UNCHANGED <<ignore_exempts, config, toml, audits, dependencies,
                   recursion_limit, rules, tasks, receipts, unused, matched, call>>

\* A delta field without "->".
BadDelta == <<"1", " ", "2">>

\* The inputs of SpecReport: trust roots, violations and exemptions of yip and
\* yap under the default criteria, a delta, and a malformed delta in the ledger
\* and in an exemption; the lock file may list no registry package at all, and
\* a file may be unreadable or not deserialize.
ReportItems ==
    VersionAudits({"yip", "yap"}, {"safe-to-deploy"}, {V2})
    \cup ViolationAudits({"yip"}, {"safe-to-deploy"}, {V2, V10})
    \cup ViolationAudits({"yap"}, {"safe-to-deploy"}, {V2})
    \cup DeltaAudits({"yip"}, {"safe-to-deploy"}, {<<V2, V10>>})
    \cup Exempts({"yip"}, {"safe-to-deploy"}, {V2, V10}, {FALSE})
    \cup {AuditItem("yip", Audit("safe-to-deploy", Some(BadDelta), None, None, FALSE)),
          ExemptItem("yip", Audit("safe-to-deploy", Some(BadDelta), Some(V2), None, FALSE)),
          PolicyItem("yap", Some({})), PolicyItem("yip", None),
          DefaultPolicyItem({"safe-to-deploy", "yote"})}

\* A second family of inputs of SpecReport.  The config declares safe-to-deploy
\* with implied-any yote, and the ledger audits version 1 of yip and the delta
\* 1 -> 2 under yote; to these come at most MaxItems of: the delta 2->10 under
\* yote (written without spaces), violations of versions 2 and 10 under
\* safe-to-deploy, and exemptions of the two versions with and without
\* allow-unused.  The lock file lists versions 2 and 10 of yip, and the budget
\* lets a check walk from safe-to-deploy to yote and down both deltas.
ChainItems ==
    {CriteriaItem("config", "safe-to-deploy", "implied_any", "yote")}
    \cup DeltaAudits({"yip"}, {"yote"}, {<<V1, V2>>})
    \cup VersionAudits({"yip"}, {"yote"}, {V1})

ChainExtras ==
    {AuditItem("yip", Audit("yote", Some(V2 \o <<"-", ">">> \o V10), None, None, FALSE))}
    \cup ViolationAudits({"yip"}, {"safe-to-deploy"}, {V2, V10})
    \cup Exempts({"yip"}, {"safe-to-deploy"}, {V2, V10}, BOOLEAN)

ReadErrors == {"LockOpen", "ConfigOpen", "AuditsOpen", "Deserialize"}

InitReport ==
    \/ /\ \E items \in Inputs(ReportItems, MaxItems),
              deps \in Sublists(DriverDeps, MaxDeps) \cup {<<>>},
              limit \in 0..MaxLimit,
              ignore \in BOOLEAN :
                \E layout \in Layouts(items) :
                    Constructed(items, deps, limit, ignore, layout)
       /\ error = IF dependencies = <<>> THEN Some("EmptyDependencies") ELSE rules.error
       /\ phase = IF IsSome(error) THEN "error" ELSE "checking"
    \/ /\ \E extras \in Inputs(ChainExtras, MaxItems),
              deps \in Sublists(<<Dep("yip", V2), Dep("yip", V10)>>, MaxDeps) :
                Constructed(ChainItems \cup extras, deps, MaxLimit + 1, FALSE,
                            ArraysOfTables)
       /\ error = rules.error
       /\ phase = "checking"
    \/ /\ \E limit \in 0..MaxLimit :
              Constructed({}, <<>>, limit, FALSE, ArraysOfTables)
       /\ error \in {Some(e) : e \in ReadErrors}
       /\ phase = "error"

NextReport ==
    \/ Next
    \/ Abort
    \/ \E output \in {"human", "json"}, ratchet \in BOOLEAN, add \in BOOLEAN,
          fault \in {None} \cup {Some(p) : p \in {"open", "read_to_string", "rewind",
                                                  "set_len", "write_all"}},
          partial \in BOOLEAN,
          fail_at \in 1..2 :
            Report(output, ratchet, add, fault, partial, fail_at)

SpecReport == InitReport /\ [][NextReport]_vars

(***************************************************************************)
(* Rules::check_criteria applied to arbitrary arguments                    *)
(***************************************************************************)

\* mark_used on each of the roots a call matched, in call order.
RECURSIVE MarkAll(_, _)
MarkAll(trust_roots, keys) ==
    IF keys = <<>> THEN trust_roots
    ELSE MarkAll(mark_used(trust_roots, Head(keys)), Tail(keys))

\* One call rules.check_criteria(name, version, criteria, implied_criteria,
\* limit) on freshly constructed rules: its arguments and outcome are recorded
\* and its mark_used stores are made.
Call(name, version, criteria, implied_criteria, limit) ==
    /\ phase = "call"
    /\ call = None
    /\ LET o == check_criteria(rules, name, version, criteria, implied_criteria, limit)
       IN /\ call' = Some([name |-> name, version |-> version, criteria |-> criteria,
                           implied_criteria |-> implied_criteria,
                           recursion_limit |-> limit, outcome |-> o])
          /\ rules' = [rules EXCEPT !.trust_roots = MarkAll(@, o.matched)]
          /\ matched' = {o.matched[i] : i \in DOMAIN o.matched}
    /\ UNCHANGED <<ignore_exempts, config, toml, audits, dependencies,
                   recursion_limit, phase, tasks, receipts, unused, error,
                   report>>

\* The inputs of SpecCall: audits, exemptions and implication edges of yip over
\* two criteria and three versions, with the delta 2 -> 2 that refers to itself.
CallCriteria == {"safe-to-deploy", "yote"}
CallVersions == {V1, V2, V10}

CallItems ==
    VersionAudits({"yip"}, CallCriteria, CallVersions)
    \cup ViolationAudits({"yip"}, CallCriteria, CallVersions)
    \cup DeltaAudits({"yip"}, CallCriteria,
                     {d \in CallVersions \X CallVersions : d[1] # d[2]} \cup {<<V2, V2>>})
    \cup Exempts({"yip"}, CallCriteria, CallVersions, {FALSE})
    \cup CriteriaItems({"config"}, CallCriteria, {"implied_all", "implied_any"},
                       CallCriteria)

\* The cons lists of at most k criteria.
RECURSIVE ConsLists(_, _)
ConsLists(crits, k) ==
    IF k = 0 THEN {<<>>}
    ELSE LET shorter == ConsLists(crits, k - 1)
         IN shorter \cup {<<c>> \o l : c \in crits, l \in shorter}

InitCall ==
    /\ \E items \in Inputs(CallItems, MaxItems) :
          Constructed(items, <<>>, 0, FALSE, ArraysOfTables)
    /\ error = rules.error
    /\ phase = "call"

NextCall ==
    \E version \in {VersionNew(v) : v \in CallVersions},
       criteria \in CallCriteria,
       implied_criteria \in ConsLists(CallCriteria, MaxCons),
       limit \in 0..MaxLimit :
        Call("yip", version, criteria, implied_criteria, limit)

SpecCall == InitCall /\ [][NextCall]_vars

(***************************************************************************)
(* Properties of check_criteria (SpecCall)                                 *)
(***************************************************************************)

\* The rules as Rules::new built them, before any mark_used.
Rules0 == RulesNew(config, audits)

\* The key the recorded call asked about.
CallKey == Key(Unwrap(call).criteria, Unwrap(call).name, Unwrap(call).version)

\* C1. Direct trust: a call about a key that has a TrustRoot and no Violation
\* returns Validated, whatever its ancestor chain and budget (0 included), and
\* a usage marker carried by that TrustRoot is true after the call.
C1_DirectTrust ==
    (IsSome(call) /\ CallKey \in DOMAIN rules.trust_roots
                  /\ CallKey \notin rules.violations)
    => /\ Unwrap(call).outcome.result = Validated
       /\ IsSome(rules.trust_roots[CallKey].used)
            => Unwrap(rules.trust_roots[CallKey].used) = TRUE

\* C1 happens: a call with budget 0 and an ancestor, on a key whose TrustRoot
\* carried a marker that was false, has returned.
C1_Witness ==
    /\ IsSome(call)
    /\ CallKey \in DOMAIN rules.trust_roots
    /\ CallKey \notin rules.violations
    /\ Rules0.trust_roots[CallKey].used = Some(FALSE)
    /\ Unwrap(call).recursion_limit = 0
    /\ Unwrap(call).implied_criteria # <<>>
    /\ Unwrap(call).outcome.result = Validated

\* C2. Violation precedence: a call about a key that has a Violation returns
\* Violation for every ancestor chain and budget, whatever else is recorded for
\* the key, and sets no usage marker.
C2_ViolationPrecedence ==
    (IsSome(call) /\ CallKey \in rules.violations)
    => /\ Unwrap(call).outcome.result = Violation
       /\ Unwrap(call).outcome.matched = <<>>
       /\ rules.trust_roots = Rules0.trust_roots

\* C2 happens: the key has a Violation and an unused exemption, and an ancestor
\* of the call has a TrustRoot at the same name and version.
C2_Witness ==
    /\ IsSome(call)
    /\ CallKey \in rules.violations
    /\ CallKey \in DOMAIN rules.trust_roots
    /\ rules.trust_roots[CallKey].used = Some(FALSE)
    /\ Unwrap(call).implied_criteria # <<>>
    /\ Unwrap(call).outcome.result = Violation

\* The version that k hops along the TrustDeltas under criteria lead to.
RECURSIVE ChainRoot(_, _, _, _, _)
ChainRoot(r, criteria, name, version, k) ==
    IF k = 0 THEN version
    ELSE ChainRoot(r, criteria, name,
                   r.trust_deltas[Key(criteria, name, version)].parent_version, k - 1)

\* The rest of a chain below the checked version: k more TrustDeltas lead to a
\* version with a TrustRoot, and the versions before it have no Violation and
\* no TrustRoot.
RECURSIVE ChainBelow(_, _, _, _, _)
ChainBelow(r, criteria, name, version, k) ==
    LET key == Key(criteria, name, version)
    IN IF k = 0 THEN key \in DOMAIN r.trust_roots
       ELSE /\ key \notin r.violations
            /\ key \notin DOMAIN r.trust_roots
            /\ key \in DOMAIN r.trust_deltas
            /\ ChainBelow(r, criteria, name, r.trust_deltas[key].parent_version, k - 1)

\* The TrustDeltas under criteria form a chain of k >= 1 hops from version down
\* to a version with a TrustRoot, with no Violation and no TrustRoot at the
\* versions strictly between the two.
IsDeltaChain(r, criteria, name, version, k) ==
    /\ k >= 1
    /\ Key(criteria, name, version) \in DOMAIN r.trust_deltas
    /\ ChainBelow(r, criteria, name,
                  r.trust_deltas[Key(criteria, name, version)].parent_version, k - 1)

\* A chain on which, besides, the checked version has no TrustRoot and neither
\* the checked version nor the version of the root has a Violation.
IsClearDeltaChain(r, criteria, name, version, k) ==
    /\ IsDeltaChain(r, criteria, name, version, k)
    /\ Key(criteria, name, version) \notin r.violations
    /\ Key(criteria, name, version) \notin DOMAIN r.trust_roots
    /\ Key(criteria, name, ChainRoot(r, criteria, name, version, k)) \notin r.violations

\* C3 as stated. Delta chains: with a chain of k >= 1 TrustDeltas under C from
\* the checked version down to a TrustRoot, no Violation and no TrustRoot at the
\* intermediate versions, a call with the empty ancestor chain returns Validated
\* when its budget is at least k and RecursionLimitReached when its budget is 0.
C3_Original ==
    IsSome(call) =>
        \A k \in 1..(MaxLimit + 1) :
            (/\ Unwrap(call).implied_criteria = <<>>
             /\ IsDeltaChain(rules, Unwrap(call).criteria, Unwrap(call).name,
                             Unwrap(call).version, k))
            => /\ Unwrap(call).recursion_limit >= k
                    => Unwrap(call).outcome.result = Validated
               /\ Unwrap(call).recursion_limit = 0
                    => Unwrap(call).outcome.result = RecursionLimitReached

\* C3, amended. Delta chains: with such a chain on which, besides, no version
\* has a Violation under C, the checked version and the root's included, and
\* the checked version has no TrustRoot under C, a call with the empty ancestor
\* chain returns Validated when its budget is at least k and
\* RecursionLimitReached when its budget is 0.  With a Violation at the checked
\* version the call returns Violation, and with a TrustRoot there and no
\* Violation it returns Validated, at every budget.
C3_DeltaChains ==
    IsSome(call) =>
        \A k \in 1..(MaxLimit + 1) :
            (/\ Unwrap(call).implied_criteria = <<>>
             /\ IsDeltaChain(rules, Unwrap(call).criteria, Unwrap(call).name,
                             Unwrap(call).version, k))
            => IF CallKey \in rules.violations
               THEN Unwrap(call).outcome.result = Violation
               ELSE IF CallKey \in DOMAIN rules.trust_roots
               THEN Unwrap(call).outcome.result = Validated
               ELSE IsClearDeltaChain(rules, Unwrap(call).criteria, Unwrap(call).name,
                                      Unwrap(call).version, k)
                    => /\ Unwrap(call).recursion_limit >= k
                            => Unwrap(call).outcome.result = Validated
                       /\ Unwrap(call).recursion_limit = 0
                            => Unwrap(call).outcome.result = RecursionLimitReached

\* C3 happens: a chain of two deltas was followed with budget 2.
C3_Witness ==
    /\ IsSome(call)
    /\ Unwrap(call).implied_criteria = <<>>
    /\ IsClearDeltaChain(rules, Unwrap(call).criteria, Unwrap(call).name,
                         Unwrap(call).version, 2)
    /\ Unwrap(call).recursion_limit = 2
    /\ Unwrap(call).outcome.result = Validated
    /\ Unwrap(call).outcome.depth = 3

\* A budget larger than any nesting the rules checked here reach without
\* coming back to a call already made.
CycleBudget == 12

\* The packages, versions and criteria a call can tell apart: those the rules
\* mention, and one package ("yop") and one version ("0") that no rule of the
\* inputs mentions, since implication edges apply to every package and version.
RuleKeys(r) == DOMAIN r.trust_roots \cup DOMAIN r.trust_deltas \cup r.violations
RuleNames(r) == {k[2] : k \in RuleKeys(r)} \cup {"yop"}
RuleVersions(r) ==
    {k[3] : k \in RuleKeys(r)}
    \cup {r.trust_deltas[k].parent_version : k \in DOMAIN r.trust_deltas}
    \cup {VersionNew(<<"0">>)}
RuleCriteria(r) ==
    {k[1] : k \in RuleKeys(r)} \cup DOMAIN r.implied_all \cup DOMAIN r.implied_any

\* The recursion of some check_criteria call on the rules ends only at the
\* budget: its TrustDeltas and implication edges lead back to where it started.
HasCycle(r) ==
    \E name \in RuleNames(r), version \in RuleVersions(r), criteria \in RuleCriteria(r) :
        check_criteria(r, name, version, criteria, <<>>, CycleBudget).depth
            = CycleBudget + 1

\* C5. Termination: every call returns one of the four results, and the
\* check_criteria calls nested in a call with budget b, itself included, are
\* never more than b + 1 deep.
C5_DepthBound ==
    IsSome(call) =>
        /\ Unwrap(call).outcome.result
              \in {Validated, Missing, RecursionLimitReached, Violation}
        /\ Unwrap(call).outcome.depth <= Unwrap(call).recursion_limit + 1

\* C5 happens: on cyclic rules a call used its whole budget and gave up.
C5_Witness ==
    /\ IsSome(call)
    /\ Unwrap(call).recursion_limit = MaxLimit
    /\ Unwrap(call).outcome.depth = MaxLimit + 1
    /\ Unwrap(call).outcome.result \in {Missing, RecursionLimitReached}
    /\ HasCycle(rules)


(***************************************************************************)
(* Version::new and Ord for Version applied to arbitrary strings           *)
(***************************************************************************)

MaxLen == 2
MaxPairLen == 3
MaxDigits == 3

\* The strings of at most k characters of A.
Strings(A, k) == UNION {[1..n -> A] : n \in 0..k}

Alphabet == {"0", "1", "a", ".", "-"}
Digits == {"0", "8", "9"}

\* Versions of tests::version_sort, in the order the test expects.
SortedExamples ==
    << <<"7", ".", "1", "5">>,
       <<"7", ".", "1", "5", ".", "1", "-", "p", "r", "e", ".", "1">>,
       <<"7", ".", "1", "5", ".", "1", "-", "p", "r", "e", ".", "2">>,
       <<"7", ".", "1", "5", ".", "1">>,
       <<"7", ".", "1", "5", ".", "1", "a">>,
       <<"7", ".", "1", "5", ".", "2">>,
       <<"8", ".", "1", "0", ".", "8">>,
       <<"1", "0", ".", "1", "0", ".", "1", "3">> >>

\* Three version strings to parse and compare.
VersionInput(a, b, c) == [a |-> a, b |-> b, c |-> c, out |-> None]

InitVersion ==
    /\ ignore_exempts = FALSE
    /\ config = ConfigOf({})
    /\ toml = TomlOf({}, ArraysOfTables)
    /\ audits = AuditsFileOf({})
    /\ dependencies = <<>>
    /\ recursion_limit = 0
    /\ rules = RulesNew(ConfigOf({}), AuditsFileOf({}))
    /\ tasks = <<>>
    /\ receipts = None
    /\ unused = None
    /\ matched = {}
    /\ report = None
    /\ error = None
    /\ phase = "version"
    /\ \/ \E a, b, c \in Strings(Alphabet, MaxLen) : call = VersionInput(a, b, c)
       \/ \E a, b \in Strings(Alphabet, MaxPairLen) : call = VersionInput(a, b, <<>>)
       \/ \E a, b \in Strings(Digits, MaxDigits) \ {<<>>} :
             call = VersionInput(a, b, <<>>)
       \/ \E i, j \in DOMAIN SortedExamples :
             call = VersionInput(SortedExamples[i], SortedExamples[j], <<>>)

\* The three strings are parsed by Version::new, compared with Ord::cmp and
\* written back with Display; part is the comparison of the first parts.
Compare ==
    /\ phase = "version"
    /\ call.out = None
    /\ LET a == VersionNew(call.a)
           b == VersionNew(call.b)
           c == VersionNew(call.c)
       IN call' = [call EXCEPT !.out =
                    Some([a |-> a, b |-> b, c |-> c,
                          ab |-> VersionCmp(a, b), ba |-> VersionCmp(b, a),
                          bc |-> VersionCmp(b, c), ac |-> VersionCmp(a, c),
                          part |-> IF a # <<>> /\ b # <<>>
                                   THEN Some(VersionPartCmp(Head(a), Head(b)))
                                   ELSE None,
                          shown |-> VersionToString(a)])]
    /\ UNCHANGED <<ignore_exempts, config, toml, audits, dependencies,
                   recursion_limit, rules, phase, tasks, receipts, unused,
                   matched, error, report>>

SpecVersion == InitVersion /\ [][Compare]_vars

\* Ordering::reverse
Reverse(o) == IF o = Less THEN Greater ELSE IF o = Greater THEN Less ELSE Equal

\* The outcome of Compare.
Compared == phase = "version" /\ IsSome(call.out)

\* C14. The version comparison is a total order consistent with equality:
\* cmp(a, b) is one of Less, Equal, Greater and the reverse of cmp(b, a), it is
\* Equal exactly when the part sequences are the same, and a < b, b < c imply
\* a < c.
C14_TotalOrder ==
    Compared =>
        LET o == Unwrap(call.out)
        IN /\ o.ab \in {Less, Equal, Greater}
           /\ o.ab = Reverse(o.ba)
           /\ o.ab = Equal <=> o.a = o.b
           /\ (o.ab = Less /\ o.bc = Less) => o.ac = Less
           /\ (o.ab = Equal /\ o.bc = Equal) => o.ac = Equal

\* C14 happens: three versions in ascending order, the first a pre-release of
\* the second and the third a suffix of it.
C14_Witness ==
    /\ Compared
    /\ LET o == Unwrap(call.out)
       IN /\ o.ab = Less /\ o.bc = Less /\ o.ac = Less
          /\ Len(o.a) > Len(o.b) /\ SubSeq(o.a, 1, Len(o.b)) = o.b
          /\ Len(o.c) > Len(o.b) /\ SubSeq(o.c, 1, Len(o.b)) = o.b
          /\ o.b # <<>>

\* The first position at which the part sequences a and b differ, 0 when one
\* is a prefix of the other.
RECURSIVE FirstDifference(_, _, _)
FirstDifference(a, b, i) ==
    IF i > Len(a) \/ i > Len(b) THEN 0
    ELSE IF a[i] # b[i] THEN i
    ELSE FirstDifference(a, b, i + 1)

KindRank(p) == IF p.kind = "Dash" THEN 0 ELSE IF p.kind = "Number" THEN 1 ELSE 2

\* C15. Pre-release versus suffix ordering: when the parts of a are a proper
\* prefix of the parts of b, b < a if the first extra part of b is a Dash and
\* a < b otherwise; at the first position where two versions differ a Dash
\* sorts below a number run, which sorts below a string run; and the versions
\* of the reference test compare in the order the test expects.
C15_PrefixOrdering ==
    Compared =>
        LET o == Unwrap(call.out)
            d == FirstDifference(o.a, o.b, 1)
        IN /\ (Len(o.a) < Len(o.b) /\ d = 0) =>
                o.ab = IF o.b[Len(o.a) + 1] = Dash THEN Greater ELSE Less
           /\ (d # 0 /\ KindRank(o.a[d]) < KindRank(o.b[d])) => o.ab = Less
           /\ (d # 0 /\ KindRank(o.a[d]) > KindRank(o.b[d])) => o.ab = Greater
           /\ \A i, j \in DOMAIN SortedExamples :
                (call.a = SortedExamples[i] /\ call.b = SortedExamples[j]) =>
                    o.ab = IntCmp(i, j)

\* C15 happens: 7.15.1-pre.2 is compared with 7.15.1, its prefix.
C15_Witness ==
    /\ Compared
    /\ call.a = SortedExamples[4]
    /\ call.b = SortedExamples[3]
    /\ Unwrap(call.out).ab = Greater
    /\ Len(Unwrap(call.out).a) < Len(Unwrap(call.out).b)
    /\ FirstDifference(Unwrap(call.out).a, Unwrap(call.out).b, 1) = 0

\* The natural number a digit run denotes.
RECURSIVE Denotes(_)
Denotes(s) ==
    IF s = <<>> THEN 0
    ELSE 10 * Denotes(SubSeq(s, 1, Len(s) - 1)) + (Byte[s[Len(s)]] - 48)

\* Both strings of the input are digit runs.
DigitRuns ==
    /\ call.a # <<>> /\ call.b # <<>>
    /\ \A i \in DOMAIN call.a : is_ascii_digit(call.a[i])
    /\ \A i \in DOMAIN call.b : is_ascii_digit(call.b[i])

\* C16 as stated. Numeric ordering of number runs: two digit runs that denote
\* different numbers, leading zeros or not, compare as the numbers they denote.
C16_NumericOrder ==
    (Compared /\ DigitRuns /\ Denotes(call.a) # Denotes(call.b)) =>
        (Unwrap(Unwrap(call.out).part) = Less <=> Denotes(call.a) < Denotes(call.b))

(***************************************************************************)
(* Rules::find_prev applied to arbitrary arguments                         *)
(***************************************************************************)

\* One call rules.find_prev(name, version, criteria, limit) on freshly
\* constructed rules: its arguments and outcome are recorded and the mark_used
\* stores of its check_criteria calls are made.
FindPrev(name, version, criteria, limit) ==
    /\ phase = "prev"
    /\ call = None
    /\ LET p == find_prev(rules, name, version, criteria, limit)
       IN /\ call' = Some([name |-> name, version |-> version, criteria |-> criteria,
                           recursion_limit |-> limit, outcome |-> p])
          /\ rules' = [rules EXCEPT !.trust_roots = MarkAll(@, p.matched)]
          /\ matched' = {p.matched[i] : i \in DOMAIN p.matched}
    /\ UNCHANGED <<ignore_exempts, config, toml, audits, dependencies,
                   recursion_limit, phase, tasks, receipts, unused, error,
                   report>>

\* The inputs of SpecPrev: those of SpecCall and a trust root of another
\* package.
PrevItems == CallItems \cup VersionAudits({"yap"}, CallCriteria, {V1})

InitPrev ==
    /\ \E items \in Inputs(PrevItems, MaxItems) :
          Constructed(items, <<>>, 0, FALSE, ArraysOfTables)
    /\ error = rules.error
    /\ phase = "prev"

NextPrev ==
    \E version \in {VersionNew(v) : v \in CallVersions},
       criteria \in CallCriteria,
       limit \in 0..MaxLimit :
        FindPrev("yip", version, criteria, limit)

SpecPrev == InitPrev /\ [][NextPrev]_vars

\* The versions below the version of the recorded find_prev call that key a
\* TrustRoot or TrustDelta of its name and validate for its criteria with one
\* unit of budget less.
PriorValidated ==
    LET c == Unwrap(call)
    IN {w \in {k[3] : k \in {y \in DOMAIN Rules0.trust_roots
                                    \cup DOMAIN Rules0.trust_deltas : y[2] = c.name}} :
          /\ VersionCmp(w, c.version) = Less
          /\ check_criteria(Rules0, c.name, w, c.criteria, <<>>,
                            c.recursion_limit - 1).result = Validated}

\* C11. Nearest prior audit: find_prev returns none when the budget is 0 or no
\* audited version below version validates with budget - 1, and otherwise the
\* greatest such version; it never returns a version that is not below version.
C11_NearestPrior ==
    (phase = "prev" /\ IsSome(call)) =>
        LET c == Unwrap(call)
            prev == c.outcome.prev
        IN /\ c.recursion_limit = 0 => prev = None
           /\ (c.recursion_limit > 0 /\ PriorValidated = {}) => prev = None
           /\ (c.recursion_limit > 0 /\ PriorValidated # {}) =>
                /\ IsSome(prev)
                /\ Unwrap(prev) \in PriorValidated
                /\ \A w \in PriorValidated : VersionCmp(w, Unwrap(prev)) # Greater
           /\ IsSome(prev) => VersionCmp(Unwrap(prev), c.version) = Less

\* C11 happens: find_prev skipped an audited version that does not validate and
\* returned a lesser one.
C11_Witness ==
    /\ phase = "prev" /\ IsSome(call)
    /\ LET c == Unwrap(call)
       IN /\ IsSome(c.outcome.prev)
          /\ \E k \in DOMAIN Rules0.trust_roots \cup DOMAIN Rules0.trust_deltas :
                /\ k[2] = c.name
                /\ VersionCmp(k[3], c.version) = Less
                /\ VersionCmp(k[3], Unwrap(c.outcome.prev)) = Greater

(***************************************************************************)
(* Properties of the check run (Spec)                                      *)
(***************************************************************************)

\* Dependency i has been checked: its receipt exists.
Checked(i) == tasks[i].pc # "todo"

\* The receipt of dependency i has no Fail for criterion c.
ValidatedFor(i, c) ==
    \A j \in DOMAIN Unwrap(tasks[i].receipt).status.fails :
        Unwrap(tasks[i].receipt).status.fails[j].needed # c

\* Criterion a is declared with b in its implies set, a TrustRoot is recorded
\* for a at dependency i, b is required of dependency i and nothing is recorded
\* under b for it.
ImpliedTrust(i, a, b) ==
    LET criteria == MergedCriteria(config, audits)
        n == dependencies[i].name
        v == dependencies[i].version
    IN /\ a \in DOMAIN criteria
       /\ b \in criteria[a].implies
       /\ b \in get_policy(rules, n).require_all
       /\ Key(a, n, v) \in DOMAIN rules.trust_roots
       /\ Key(b, n, v) \notin DOMAIN rules.trust_roots
       /\ Key(b, n, v) \notin DOMAIN rules.trust_deltas
       /\ Key(b, n, v) \notin rules.violations

\* C4 as stated. Implication: with b in a's implies set, a TrustRoot for
\* (a, P, v) and nothing recorded under b for (P, v), the driver's check of b
\* for (P, v) returns Validated.
C4_Original ==
    \A i \in DOMAIN tasks : \A a, b \in DriverCriteria :
        (Checked(i) /\ ImpliedTrust(i, a, b)) => ValidatedFor(i, b)

\* C4, amended: the same, when moreover no Violation is recorded for (a, P, v)
\* and the configured recursion budget is at least 1.
C4_Implication ==
    \A i \in DOMAIN tasks : \A a, b \in DriverCriteria :
        (/\ Checked(i) /\ ImpliedTrust(i, a, b)
         /\ Key(a, dependencies[i].name, dependencies[i].version) \notin rules.violations
         /\ recursion_limit >= 1)
        => ValidatedFor(i, b)

\* C4 happens: a dependency passed on the strength of an implying criterion's
\* TrustRoot alone.
C4_Witness ==
    \E i \in DOMAIN tasks : \E a, b \in DriverCriteria :
        /\ Checked(i) /\ ImpliedTrust(i, a, b)
        /\ Key(a, dependencies[i].name, dependencies[i].version) \notin rules.violations
        /\ recursion_limit >= 1
        /\ get_policy(rules, dependencies[i].name).require_all = {b}
        /\ Unwrap(tasks[i].receipt).status = Passed

\* The permutations of 1..n, as sequences.
RECURSIVE Orders(_)
Orders(S) ==
    IF S = {} THEN {<<>>}
    ELSE UNION {{<<i>> \o o : o \in Orders(S \ {i})} : i \in S}

\* The dependencies checked one after the other in the given order, starting
\* from rules r: the receipts by dependency and the rules at the end.
RECURSIVE Sequential(_, _, _)
Sequential(r, order, done) ==
    IF order = <<>> THEN [rules |-> r, receipts |-> done]
    ELSE LET i == Head(order)
             c == check(r, dependencies[i].name, dependencies[i].version,
                        recursion_limit)
         IN Sequential([r EXCEPT !.trust_roots = MarkAll(@, c.matched)],
                       Tail(order),
                       [done EXCEPT ![i] = c.receipt])

\* C6. Order independence: whatever the interleaving of the workers' checks
\* and mark_used stores, the receipts and the unused-exemption set after the
\* join are those of a sequential evaluation in any order.
C6_OrderIndependence ==
    phase = "joined" =>
        \A order \in Orders(DOMAIN tasks) :
            LET seq == Sequential(Rules0, order, [i \in DOMAIN tasks |-> None])
            IN /\ Unwrap(receipts) = seq.receipts
               /\ Unwrap(unused) = unused_exempts(seq.rules)

\* C6 happens: two dependencies were checked, both matched the same exemption,
\* whose marker went from false to true, and another exemption stayed unused.
C6_Witness ==
    /\ phase = "joined"
    /\ Len(dependencies) = 2
    /\ \E k \in DOMAIN rules.trust_roots :
          /\ Rules0.trust_roots[k].used = Some(FALSE)
          /\ rules.trust_roots[k].used = Some(TRUE)
          /\ \A i \in DOMAIN tasks :
                LET m == check(Rules0, dependencies[i].name, dependencies[i].version,
                               recursion_limit).matched
                IN \E j \in DOMAIN m : m[j] = k
    /\ Unwrap(unused) # {}

\* C7. Usage markers are monotonic: a step changes nothing of the rules but
\* usage markers, a marker that is true stays true, an absent marker stays
\* absent, and a marker that changes becomes true.
C7_MarkersMonotonic ==
    [][/\ [rules EXCEPT !.trust_roots = <<>>] = [rules' EXCEPT !.trust_roots = <<>>]
       /\ DOMAIN rules'.trust_roots = DOMAIN rules.trust_roots
       /\ \A k \in DOMAIN rules.trust_roots :
            /\ rules.trust_roots[k].used = Some(TRUE)
                 => rules'.trust_roots[k].used = Some(TRUE)
            /\ rules.trust_roots[k].used = None => rules'.trust_roots[k].used = None
            /\ rules'.trust_roots[k].used # rules.trust_roots[k].used
                 => rules'.trust_roots[k].used = Some(TRUE)]_vars

\* C7 happens: mark_used was called again on a marker that was already true,
\* and on a TrustRoot that has no marker.
C7_Witness ==
    /\ \E i \in DOMAIN tasks, k \in DOMAIN rules.trust_roots :
          /\ tasks[i].pc = "done"
          /\ Rules0.trust_roots[k].used = Some(FALSE)
          /\ rules.trust_roots[k].used = Some(TRUE)
          /\ Cardinality({j \in DOMAIN tasks :
                /\ tasks[j].pc = "done"
                /\ LET m == check(Rules0, dependencies[j].name,
                                   dependencies[j].version, recursion_limit).matched
                   IN \E x \in DOMAIN m : m[x] = k}) = 2
    /\ \E k \in matched : rules.trust_roots[k].used = None

\* The rules with every usage marker that exists set as m says.
WithMarkers(r, m) ==
    [r EXCEPT !.trust_roots =
        [k \in DOMAIN @ |-> IF IsSome(@[k].used) THEN [used |-> Some(m[k])] ELSE @[k]]]

Marked(r) == {k \in DOMAIN r.trust_roots : IsSome(r.trust_roots[k].used)}

\* C8. Dependency independence: the receipt collected for a dependency is the
\* one rules.check gives for its name, its version and the budget alone,
\* whatever the values of the usage markers, hence whatever the other
\* dependencies and the order of evaluation.
C8_DependencyIndependence ==
    phase = "joined" =>
        \A i \in DOMAIN tasks : \A m \in [Marked(rules) -> BOOLEAN] :
            Unwrap(receipts)[i] =
                check(WithMarkers(rules, m), dependencies[i].name,
                      dependencies[i].version, recursion_limit).receipt

\* C8 happens: of two dependencies one failed with a hint while the checks
\* changed a usage marker.
C8_Witness ==
    /\ phase = "joined"
    /\ Len(dependencies) = 2
    /\ rules.trust_roots # Rules0.trust_roots
    /\ \E i \in DOMAIN tasks :
          /\ Unwrap(receipts)[i].status.kind = "Failed"
          /\ IsSome(Unwrap(receipts)[i].status.fails[1].prev_version)

\* The (name, audit) pairs of a BTreeMap<String, BTreeSet<Audit>> that have a
\* version.
Versioned(map) ==
    UNION {{[name |-> n, audit |-> a] : a \in {y \in map[n] : IsSome(y.version)}} :
            n \in DOMAIN map}

DeclaredExempts == Versioned(config.exempt)

LedgerAudits == Versioned(audits.audits)

\* The key of the TrustRoot of a declaration, and the triple it is reported as.
RootKey(e) == Key(e.audit.criteria, e.name, VersionNew(Unwrap(e.audit.version)))

Triple(e) == UnusedExempt(e.name, Unwrap(e.audit.version), e.audit.criteria)

Superseded(e) == \E l \in LedgerAudits : RootKey(l) = RootKey(e)

\* Of the exemptions declared for the key of e, the one the config's set
\* iterates last.
Stored(e) ==
    CHOOSE a \in {d \in DeclaredExempts : RootKey(d) = RootKey(e)} :
        \A b \in {d \in DeclaredExempts : RootKey(d) = RootKey(e)} :
            AuditCmp(b.audit, a.audit) # Greater

\* What the loop of unused_exempts over the markers reports.
MarkerScan == unused_exempts([rules EXCEPT !.extra_unused = {}])

\* C9 as stated. A config exemption that no ledger audit supersedes is in the
\* unused-exemption set after the run iff it was declared with allow_unused =
\* false and was never the TrustRoot a check matched; exemptions with
\* allow_unused = true and ledger TrustRoots are never reported by the marker
\* scan.
C9_Original ==
    phase = "joined" =>
        /\ \A e \in DeclaredExempts :
              ~Superseded(e) =>
                (Triple(e) \in Unwrap(unused)
                   <=> (~e.audit.allow_unused /\ RootKey(e) \notin matched))
        /\ \A e \in DeclaredExempts \cup LedgerAudits :
              (e \in LedgerAudits \/ e.audit.allow_unused) => Triple(e) \notin MarkerScan

\* C9, amended: the flag that counts is the one of the exemption stored for the
\* key, the last one the config declares for it in the order of its set.
C9_UnusedReporting ==
    phase = "joined" =>
        /\ \A e \in DeclaredExempts :
              ~Superseded(e) =>
                (Triple(e) \in Unwrap(unused)
                   <=> (~Stored(e).audit.allow_unused /\ RootKey(e) \notin matched))
        /\ \A e \in DeclaredExempts \cup LedgerAudits :
              (e \in LedgerAudits \/ Stored(e).audit.allow_unused)
                 => Triple(e) \notin MarkerScan

\* C9 happens: after a run one exemption is reported unused, another was
\* matched and is not, and a third was declared with allow_unused = true and
\* never matched.
C9_Witness ==
    /\ phase = "joined"
    /\ \E e, f \in DeclaredExempts :
          /\ ~Superseded(e) /\ ~Superseded(f)
          /\ ~Stored(e).audit.allow_unused /\ ~Stored(f).audit.allow_unused
          /\ Triple(e) \in Unwrap(unused)
          /\ RootKey(f) \in matched /\ Triple(f) \notin Unwrap(unused)
    /\ \E g \in DeclaredExempts :
          /\ ~Superseded(g) /\ g.audit.allow_unused
          /\ RootKey(g) \notin matched

\* C10. Superseded exemptions: when the config declares a version exemption
\* and the ledger a version audit for the same (criterion, name, version), the
\* stored TrustRoot has no usage marker and the triple is in the
\* unused-exemption set after the run, whatever the flag and the matches.
C10_Superseded ==
    \A e \in DeclaredExempts :
        (Superseded(e) /\ phase # "error") =>
            /\ rules.trust_roots[RootKey(e)].used = None
            /\ phase = "joined" => Triple(e) \in Unwrap(unused)

\* C10 happens: a superseded exemption declared with allow_unused = true, whose
\* key a check matched, is reported after the run.
C10_Witness ==
    /\ phase = "joined"
    /\ \E e \in DeclaredExempts :
          /\ Superseded(e)
          /\ e.audit.allow_unused
          /\ RootKey(e) \in matched
          /\ Triple(e) \in Unwrap(unused)

(***************************************************************************)
(* Properties of the whole command (SpecReport)                            *)
(***************************************************************************)

\* The checks ran and the process has exited.
Exited == phase = "exited" /\ IsSome(report) /\ IsSome(receipts)

\* The greatest version below v that keys a TrustRoot or TrustDelta of n and
\* validates for c with budget b, None when there is none.
NearestValidated(n, v, c, b) ==
    LET S == {w \in {k[3] : k \in {y \in DOMAIN Rules0.trust_roots
                                        \cup DOMAIN Rules0.trust_deltas : y[2] = n}} :
                /\ VersionCmp(w, v) = Less
                /\ check_criteria(Rules0, n, w, c, <<>>, b).result = Validated}
    IN IF S = {} THEN None
       ELSE Some(CHOOSE w \in S : \A x \in S : VersionCmp(x, w) # Greater)

\* Dependency i requires criterion c and a Violation is recorded for it.
RequiredViolation(i, c) ==
    /\ c \in get_policy(Rules0, dependencies[i].name).require_all
    /\ Key(c, dependencies[i].name, dependencies[i].version) \in Rules0.violations

\* The receipt of dependency i has the Fail f.
HasFail(i, f) ==
    /\ Unwrap(receipts)[i].status.kind = "Failed"
    /\ \E j \in DOMAIN Unwrap(receipts)[i].status.fails :
          Unwrap(receipts)[i].status.fails[j] = f

FailedCount ==
    Cardinality({i \in DOMAIN Unwrap(receipts) :
                    Unwrap(receipts)[i].status.kind = "Failed"})

\* C12 as stated. A dependency with a Violation for a required criterion c gets
\* a Fail (c, Violation) whose prev_version is the nearest earlier version
\* validated for c, null when there is none; the run counts it in total_failed
\* and exits with code 1.
C12_Original ==
    Exited =>
        \A i \in DOMAIN dependencies : \A c \in DriverCriteria :
            RequiredViolation(i, c) =>
                /\ HasFail(i, Fail(c, Violation,
                                   NearestValidated(dependencies[i].name,
                                                    dependencies[i].version, c,
                                                    recursion_limit)))
                /\ IsSome(Unwrap(report).json)
                     => Unwrap(Unwrap(report).json).total_failed = FailedCount
                /\ Unwrap(report).exit_code = 1

\* C12, amended: the hint is the nearest earlier audited version that validates
\* with one unit less than the configured budget, null when the budget is 0;
\* the exit code is 1 unless --add-exempts is given (3) or the rewrite of the
\* config fails (2).
C12_ViolationReport ==
    Exited =>
        \A i \in DOMAIN dependencies : \A c \in DriverCriteria :
            RequiredViolation(i, c) =>
                /\ HasFail(i, Fail(c, Violation,
                                   IF recursion_limit = 0 THEN None
                                   ELSE NearestValidated(dependencies[i].name,
                                                         dependencies[i].version, c,
                                                         recursion_limit - 1)))
                /\ IsSome(Unwrap(report).json)
                     => Unwrap(Unwrap(report).json).total_failed = FailedCount
                /\ Unwrap(report).exit_code =
                     IF IsSome(Unwrap(report).error) THEN 2
                     ELSE IF Unwrap(Unwrap(report).args).add_exempts THEN 3 ELSE 1

\* C12 happens: the scenario of the reference suite.  Of two dependencies with
\* a Violation one has an earlier trust root and the other none; the JSON
\* report counts both and the exit code is 1.
C12_Witness ==
    /\ Exited
    /\ Len(dependencies) = 2
    /\ \A i \in DOMAIN dependencies : RequiredViolation(i, "safe-to-deploy")
    /\ \E i, j \in DOMAIN dependencies :
          /\ IsSome(Unwrap(receipts)[i].status.fails[1].prev_version)
          /\ Unwrap(receipts)[j].status.fails[1].prev_version = None
    /\ IsSome(Unwrap(report).json)
    /\ Unwrap(Unwrap(report).json).total_failed = 2
    /\ Unwrap(report).exit_code = 1

\* The criteria the claim says dependency name n requires.
RequiredOf(n) ==
    LET default == IF IsSome(config.default_policy.require_all)
                   THEN Unwrap(config.default_policy.require_all)
                   ELSE {"safe-to-deploy"}
    IN IF n \in DOMAIN config.policy /\ IsSome(config.policy[n].require_all)
       THEN Unwrap(config.policy[n].require_all)
       ELSE default

\* The criteria of S that do not validate for dependency i.
NotValidated(i, S) ==
    {c \in S : check_criteria(Rules0, dependencies[i].name, dependencies[i].version,
                              c, <<>>, recursion_limit).result # Validated}

\* The needed criteria of the Fails of the receipt of dependency i.
Needed(i) ==
    {Unwrap(tasks[i].receipt).status.fails[j].needed :
        j \in DOMAIN Unwrap(tasks[i].receipt).status.fails}

\* C13. Policy resolution: the resolved policy of every name is the override's
\* require_all if there is one, else the config's default require_all, else
\* {"safe-to-deploy"}; and the receipt of a dependency fails exactly on the
\* criteria of that set that do not validate.
C13_PolicyResolution ==
    ~IsSome(rules.error) =>
        /\ rules.default_policy.require_all = RequiredOf("no-override")
        /\ \A n \in {"yip", "yap", "no-override"} :
              get_policy(rules, n).require_all = RequiredOf(n)
        /\ \A i \in DOMAIN tasks :
              Checked(i) => Needed(i) = NotValidated(i, RequiredOf(dependencies[i].name))

\* C13 happens: of two checked dependencies one has an override without
\* require_all and fails on the criterion of the config's default, the other
\* has an empty override and passes with nothing recorded for it.
C13_Witness ==
    /\ IsSome(config.default_policy.require_all)
    /\ \E i, j \in DOMAIN tasks :
          /\ Checked(i) /\ Checked(j)
          /\ dependencies[i].name \in DOMAIN config.policy
          /\ config.policy[dependencies[i].name].require_all = None
          /\ Needed(i) = {"safe-to-deploy", "yote"}
          /\ dependencies[j].name \in DOMAIN config.policy
          /\ config.policy[dependencies[j].name].require_all = Some({})
          /\ Unwrap(tasks[j].receipt).status = Passed

\* C17. Complete collection of outcomes: the run collects one receipt per
\* dependency, in input order; a receipt is Passed exactly when every criterion
\* of the resolved policy validates and otherwise Failed with one Fail per
\* criterion that does not; whatever the other receipts are, none is missing;
\* and the printed totals add up to the number of dependencies.
C17_CompleteCollection ==
    IsSome(receipts) =>
        LET rs == Unwrap(receipts)
        IN /\ Len(rs) = Len(dependencies)
           /\ \A i \in DOMAIN dependencies :
                LET bad == NotValidated(i, RequiredOf(dependencies[i].name))
                IN /\ rs[i].name = dependencies[i].name
                   /\ rs[i].version = dependencies[i].version
                   /\ rs[i].status = Passed <=> bad = {}
                   /\ bad # {} =>
                        /\ rs[i].status.kind = "Failed"
                        /\ Len(rs[i].status.fails) = Cardinality(bad)
                        /\ {rs[i].status.fails[j].needed :
                               j \in DOMAIN rs[i].status.fails} = bad
                        /\ \A j \in DOMAIN rs[i].status.fails :
                              rs[i].status.fails[j].reason
                                = check_criteria(Rules0, rs[i].name, rs[i].version,
                                                 rs[i].status.fails[j].needed, <<>>,
                                                 recursion_limit).result
           /\ (Exited /\ IsSome(Unwrap(report).json)) =>
                LET j == Unwrap(Unwrap(report).json)
                IN /\ j.dependencies = rs
                   /\ j.total = Len(dependencies)
                   /\ j.total_failed = FailedCount
                   /\ j.total = j.total_passed + j.total_failed

\* C17 happens: of two dependencies the first passes and the second fails on
\* two criteria; the report lists both and counts one of each.
C17_Witness ==
    /\ Exited
    /\ IsSome(Unwrap(report).json)
    /\ Len(dependencies) = 2
    /\ Unwrap(receipts)[1].status = Passed
    /\ Unwrap(receipts)[2].status.kind = "Failed"
    /\ Len(Unwrap(receipts)[2].status.fails) = 2
    /\ Unwrap(Unwrap(report).json).total_passed = 1
    /\ Unwrap(Unwrap(report).json).total_failed = 1

\* The entries of a BTreeMap<String, BTreeSet<Audit>> whose delta field holds
\* no "->".
MalformedDeltas(map) ==
    {a \in UNION {map[n] : n \in DOMAIN map} :
        IsSome(a.delta) /\ FindArrow(Unwrap(a.delta), 1) = 0}

\* Nothing was checked, collected or written, and the process, once it has
\* exited, did so with code 2.
FailedFast ==
    /\ phase = "error"
    /\ \A i \in DOMAIN tasks : ~Checked(i)
    /\ receipts = None /\ unused = None /\ matched = {}
    /\ IsSome(report) =>
          /\ Unwrap(report).exit_code = 2
          /\ Unwrap(report).json = None
          /\ Unwrap(report).file.written = 0
          /\ ~Unwrap(report).file.broken

\* C18 as stated. Malformed deltas fail fast: a delta without "->" in a ledger
\* audit or in a config exemption makes rules construction return ParseDelta;
\* nothing is checked, collected or written and the exit code is 2.
C18_Original ==
    (MalformedDeltas(audits.audits) \cup MalformedDeltas(config.exempt) # {}) =>
        /\ FailedFast
        /\ dependencies # <<>> => error = Some("ParseDelta")

\* C18, amended: a delta without "->" in a ledger audit makes rules
\* construction return ParseDelta: nothing is checked, collected or written and
\* the exit code is 2 (an empty dependency list is reported first, also with
\* code 2).  A ledger whose deltas all contain "->", with or without spaces
\* around it, never gives ParseDelta.  The delta of a config exemption is never
\* parsed, and a malformed one alone lets the checks run.
C18_MalformedDelta ==
    /\ MalformedDeltas(audits.audits) # {} =>
          /\ FailedFast
          /\ dependencies # <<>> => error = Some("ParseDelta")
    /\ MalformedDeltas(audits.audits) = {} => error # Some("ParseDelta")
    /\ (/\ MalformedDeltas(audits.audits) = {}
        /\ MalformedDeltas(config.exempt) # {}
        /\ dependencies # <<>>
        /\ phase \in {"checking", "joined", "error"})
          => (error = None /\ phase # "error")

\* C18 happens: the ledger holds a malformed delta beside a trust root, the
\* lock file lists two packages, and the process has exited with ParseDelta.
C18_Witness ==
    /\ MalformedDeltas(audits.audits) # {}
    /\ \E n \in DOMAIN audits.audits : \E a \in audits.audits[n] : IsSome(a.version)
    /\ Len(dependencies) = 2
    /\ IsSome(report)
    /\ Unwrap(report).error = Some("ParseDelta")
    /\ Unwrap(report).exit_code = 2

\* C19. Exit codes of the check command: 2 exactly when an error occurred,
\* before the checks (unreadable or malformed file, empty dependency list,
\* malformed delta) or in a rewrite of the config; otherwise 0 exactly when
\* every receipt is Passed, --add-exempts or not, 3 exactly when some receipt is
\* Failed and --add-exempts wrote the exemptions, and 1 exactly when some
\* receipt is Failed and --add-exempts was not given.
C19_ExitCodes ==
    IsSome(report) =>
        LET r == Unwrap(report)
        IN /\ r.exit_code \in {0, 1, 2, 3}
           /\ r.exit_code = 2 <=> IsSome(r.error)
           /\ receipts = None =>
                /\ r.exit_code = 2
                /\ \/ r.error \in {Some(e) : e \in ReadErrors}
                   \/ r.error = Some("EmptyDependencies") /\ dependencies = <<>>
                   \/ r.error = Some("ParseDelta") /\ MalformedDeltas(audits.audits) # {}
           /\ (IsSome(receipts) /\ IsSome(r.error)) =>
                /\ r.error \in {Some("ConfigOpen"), Some("ConfigWrite"), Some("TomlBorked")}
                /\ \/ Unwrap(r.args).ratchet /\ Unwrap(unused) # {}
                   \/ Unwrap(r.args).add_exempts /\ FailedCount > 0
           /\ (IsSome(receipts) /\ ~IsSome(r.error)) =>
                /\ r.exit_code = 0 <=> FailedCount = 0
                /\ r.exit_code = 3 <=> (FailedCount > 0 /\ Unwrap(r.args).add_exempts)
                /\ r.exit_code = 1 <=> (FailedCount > 0 /\ ~Unwrap(r.args).add_exempts)
                /\ r.exit_code = 3 =>
                      /\ r.file.written >= 1
                      /\ \A i \in DOMAIN dependencies : \A c \in Needed(i) :
                            Audit(c, None, Some(VersionToString(dependencies[i].version)),
                                  None, FALSE) \in ExemptOf(r.file.toml)[dependencies[i].name]

\* C19 happens: with --ratchet and --add-exempts, one dependency passed and one
\* failed, both rewrites of the config succeeded and the exit code is 3.
C19_Witness ==
    /\ Exited
    /\ Unwrap(report).exit_code = 3
    /\ Unwrap(Unwrap(report).args).add_exempts
    /\ Unwrap(report).file.written = 2
    /\ FailedCount = 1
    /\ Len(dependencies) = 2

(***************************************************************************)
(* Rules::new applied to criteria declared in both files                   *)
(***************************************************************************)

\* Declarations of two criteria in the ledger and in the config: the bare table
\* and every member of every field.
MergeCriteria == {"safe-to-deploy", "yote"}

MergeItems ==
    CriteriaItems({"audits", "config"}, MergeCriteria,
                  {"implies", "implied_all", "implied_any"}, MergeCriteria)
    \cup {CriteriaItem(src, c, "table", "") : src \in {"audits", "config"},
                                              c \in MergeCriteria}

InitMerge ==
    /\ \E items \in Inputs(MergeItems, MaxItems) :
          /\ config = ConfigOf(items)
          /\ toml = TomlOf(items, ArraysOfTables)
          /\ audits = AuditsFileOf(items)
    /\ ignore_exempts = FALSE
    /\ dependencies = <<>>
    /\ recursion_limit = 0
    /\ rules = RulesNew(ConfigOf({}), AuditsFileOf({}))
    /\ tasks = <<>>
    /\ receipts = None
    /\ unused = None
    /\ matched = {}
    /\ call = None
    /\ report = None
    /\ error = None
    /\ phase = "files"

\* Rules::new(config, audits)
New ==
    /\ phase = "files"
    /\ rules' = RulesNew(config, audits)
    /\ error' = RulesNew(config, audits).error
    /\ phase' = "rules"
    /\ UNCHANGED <<ignore_exempts, config, toml, audits, dependencies,
                   recursion_limit, tasks, receipts, unused, matched, call,
                   report>>

SpecMerge == InitMerge /\ [][New]_vars

\* The edges a set of declarations asks for: d implies k makes d a member of
\* implied_any[k], and d's own implied_any and implied_all are kept under d.
AnyEdges(decls) ==
    UNION {{<<k, d>> : k \in decls[d].implies} \cup
           {<<d, m>> : m \in decls[d].implied_any} : d \in DOMAIN decls}

AllEdges(decls) ==
    UNION {{<<d, m>> : m \in decls[d].implied_all} : d \in DOMAIN decls}

\* The edges of a compiled map.
MapEdges(map) == UNION {{<<k, m>> : m \in map[k]} : k \in DOMAIN map}

\* The ledger's declarations of the criteria the config does not declare.
LedgerOnly ==
    [c \in DOMAIN audits.criteria \ DOMAIN config.criteria |-> audits.criteria[c]]

\* C20. Criteria merge precedence: the compiled implied_all and implied_any hold
\* exactly the edges of the config's declarations and of the ledger's
\* declarations of criteria the config does not declare; the ledger's
\* declaration of a criterion the config declares too contributes no edge.
C20_MergePrecedence ==
    phase = "rules" =>
        /\ MapEdges(rules.implied_any) = AnyEdges(config.criteria) \cup AnyEdges(LedgerOnly)
        /\ MapEdges(rules.implied_all) = AllEdges(config.criteria) \cup AllEdges(LedgerOnly)
        /\ DOMAIN rules.implied_all = DOMAIN config.criteria \cup DOMAIN audits.criteria
        /\ \A c \in DOMAIN config.criteria :
              rules.implied_all[c] = config.criteria[c].implied_all

\* C20 happens: yote is declared in both files, the ledger's declaration has an
\* edge that the compiled maps do not hold, the config's edge is compiled, and
\* safe-to-deploy, declared in the ledger only, keeps its edge.
C20_Witness ==
    /\ phase = "rules"
    /\ "yote" \in DOMAIN audits.criteria \cap DOMAIN config.criteria
    /\ "safe-to-deploy" \in DOMAIN audits.criteria \ DOMAIN config.criteria
    /\ "safe-to-deploy" \in audits.criteria["yote"].implies
    /\ <<"safe-to-deploy", "yote">> \notin MapEdges(rules.implied_any)
    /\ <<"yote", "safe-to-deploy">> \in MapEdges(rules.implied_all)
    /\ <<"safe-to-deploy", "yote">> \in AllEdges(LedgerOnly)
    /\ <<"safe-to-deploy", "yote">> \in MapEdges(rules.implied_all)

(***************************************************************************)
(* The check run on a config that declares an implication                  *)
(***************************************************************************)

\* The inputs of SpecHop: safe-to-deploy is implied by yote, and yip has trust
\* roots, violations, deltas and exemptions under both criteria, for both
\* versions of the lock file, and an audit of the earlier version 1.
HopBase == {CriteriaItem("config", "safe-to-deploy", "implied_any", "yote")}

HopItems ==
    VersionAudits({"yip"}, DriverCriteria, DriverVersions)
    \cup ViolationAudits({"yip"}, DriverCriteria, DriverVersions)
    \cup DeltaAudits({"yip"}, DriverCriteria, {<<V2, V10>>, <<V10, V2>>})
    \cup Exempts({"yip"}, DriverCriteria, DriverVersions, {FALSE})
    \cup VersionAudits({"yip"}, {"safe-to-deploy"}, {V1})

HopDeps == <<Dep("yip", V2), Dep("yip", V10)>>

InitHop ==
    /\ \E items \in Inputs(HopItems, MaxItems),
          deps \in Sublists(HopDeps, MaxDeps),
          limit \in 0..MaxLimit :
            Constructed(HopBase \cup items, deps, limit, FALSE, ArraysOfTables)
    /\ error = rules.error
    /\ phase = "checking"

SpecHop == InitHop /\ [][Next]_vars

\* C21. A violation overrides every trust fact of its triple: the TrustRoot
\* stored under a key that also holds a Violation is never the one a
\* check_criteria call of the run returns Validated for, and mark_used is never
\* called on it, so its usage marker stays as Rules::new set it.
C21_ViolationOverrides ==
    \A k \in rules.violations \cap DOMAIN rules.trust_roots :
        /\ k \notin matched
        /\ \A i \in DOMAIN tasks :
              \A j \in DOMAIN tasks[i].pending : tasks[i].pending[j] # k
        /\ rules.trust_roots[k].used = Rules0.trust_roots[k].used

(***************************************************************************)
(* Properties of the resolver's steps in a run (Spec, SpecHop)             *)
(***************************************************************************)

\* Some check_criteria call of the evaluation of (name, version, criteria) with
\* the given chain and budget returned at its budget test, with budget 0.  The
\* members of implied_all are visited until one does not validate; those of
\* implied_any are visited, until one validates, unless implied_all is not
\* empty and every member of it validated.
RECURSIVE Stopped(_, _, _, _, _)
RECURSIVE StoppedAll(_, _, _, _, _)
RECURSIVE StoppedAny(_, _, _, _, _)

StoppedAll(name, version, members, chain, b) ==
    /\ members # <<>>
    /\ \/ Stopped(name, version, Head(members), chain, b)
       \/ /\ check_criteria(rules, name, version, Head(members), chain, b).result
                = Validated
          /\ StoppedAll(name, version, Tail(members), chain, b)

StoppedAny(name, version, members, chain, b) ==
    /\ members # <<>>
    /\ \/ Stopped(name, version, Head(members), chain, b)
       \/ /\ check_criteria(rules, name, version, Head(members), chain, b).result
                # Validated
          /\ StoppedAny(name, version, Tail(members), chain, b)

Stopped(name, version, criteria, chain, b) ==
    IF Key(criteria, name, version) \in rules.violations THEN FALSE
    ELSE IF IsSome(TrustRootLookup(rules, name, version, criteria, chain)) THEN FALSE
    ELSE IF b = 0 THEN TRUE
    ELSE LET delta == TrustDeltaLookup(rules, name, version, criteria, chain)
             all == IF criteria \in DOMAIN rules.implied_all
                    THEN IterSorted(rules.implied_all[criteria]) ELSE <<>>
             any == IF criteria \in DOMAIN rules.implied_any
                    THEN IterSorted(rules.implied_any[criteria]) ELSE <<>>
             cons == <<criteria>> \o chain
         IN IF IsSome(delta)
            THEN Stopped(name, rules.trust_deltas[Unwrap(delta)].parent_version,
                         criteria, chain, b - 1)
            ELSE \/ StoppedAll(name, version, all, cons, b - 1)
                 \/ /\ ~(/\ all # <<>>
                          /\ IterAll(rules, name, version, all, cons, b - 1).ok)
                    /\ StoppedAny(name, version, any, cons, b - 1)

\* The Fails of the receipt of dependency i.
FailsOf(i) ==
    {Unwrap(tasks[i].receipt).status.fails[j] :
        j \in DOMAIN Unwrap(tasks[i].receipt).status.fails}

\* C22. Budget exhaustion is reported explicitly: a Fail whose evaluation
\* holds a check_criteria call that stopped at budget 0 has the reason
\* RecursionLimitReached, not Missing.
C22_BudgetExhaustion ==
    \A i \in DOMAIN tasks : Checked(i) =>
        \A f \in FailsOf(i) :
            Stopped(dependencies[i].name, dependencies[i].version, f.needed, <<>>,
                    recursion_limit)
            => f.reason = RecursionLimitReached

\* From (name, version) the deltas recorded under criteria can be followed for
\* k + 1 hops, and no Violation of criteria and no TrustRoot, of criteria or of
\* the chain, is met before any of them.
RECURSIVE OnDeltaLoop(_, _, _, _, _)
OnDeltaLoop(name, version, criteria, chain, k) ==
    /\ Key(criteria, name, version) \notin rules.violations
    /\ ~IsSome(TrustRootLookup(rules, name, version, criteria, chain))
    /\ Key(criteria, name, version) \in DOMAIN rules.trust_deltas
    /\ k > 0 => OnDeltaLoop(name,
                            rules.trust_deltas[Key(criteria, name, version)].parent_version,
                            criteria, chain, k - 1)

\* C23. Delta beats implication: a call with budget >= 1 about a key that has a
\* TrustDelta, no Violation and no TrustRoot (direct or through the ancestor
\* chain) returns what the call about the delta's parent version returns with
\* the same chain and one unit of budget less, whatever that result is, and
\* makes no other check_criteria call; on a cycle of such deltas the result is
\* RecursionLimitReached for every budget.
C23_DeltaBeatsImplication ==
    IsSome(call) =>
        LET c == Unwrap(call)
        IN /\ (c.recursion_limit >= 1
               /\ OnDeltaLoop(c.name, c.version, c.criteria, c.implied_criteria, 0))
              => LET p == check_criteria(Rules0, c.name,
                                         Rules0.trust_deltas[CallKey].parent_version,
                                         c.criteria, c.implied_criteria,
                                         c.recursion_limit - 1)
                 IN /\ c.outcome.result = p.result
                    /\ c.outcome.matched = p.matched
                    /\ c.outcome.depth = p.depth + 1
           /\ OnDeltaLoop(c.name, c.version, c.criteria, c.implied_criteria,
                          MaxLimit + 1)
              => c.outcome.result = RecursionLimitReached

\* C23 happens: the call is about a key on a cycle of two deltas, its criteria
\* has an implied_any member, and the whole budget went into delta hops.
C23_Witness ==
    /\ IsSome(call)
    /\ OnDeltaLoop(Unwrap(call).name, Unwrap(call).version, Unwrap(call).criteria,
                   Unwrap(call).implied_criteria, MaxLimit + 1)
    /\ Rules0.trust_deltas[CallKey].parent_version # Unwrap(call).version
    /\ Unwrap(call).criteria \in DOMAIN rules.implied_any
    /\ rules.implied_any[Unwrap(call).criteria] # {}
    /\ Unwrap(call).recursion_limit = MaxLimit
    /\ Unwrap(call).outcome.result = RecursionLimitReached
    /\ Unwrap(call).outcome.depth = MaxLimit + 1

\* The trust roots that the checks of the required criteria of the listed
\* dependencies matched, the find_prev calls left aside.
MatchedByChecks ==
    UNION {LET o == check_criteria(Rules0, dependencies[p[1]].name,
                                   dependencies[p[1]].version, p[2], <<>>,
                                   recursion_limit)
           IN {o.matched[j] : j \in DOMAIN o.matched} :
           p \in {q \in (DOMAIN dependencies) \X DriverCriteria :
                    q[2] \in get_policy(Rules0, dependencies[q[1]].name).require_all}}

\* C24. find_prev only produces hints: it leaves every usage marker as it was,
\* so the marker of an exemption is true only if the check of a required
\* criterion of a listed dependency matched it, and an exemption that no such
\* check matched is in the unused-exemption set.
C24_HintsOnly ==
    \A k \in DOMAIN Rules0.trust_roots :
        (Rules0.trust_roots[k].used = Some(FALSE) /\ k \notin MatchedByChecks)
        => /\ rules.trust_roots[k].used = Some(FALSE)
           /\ IsSome(unused)
                => UnusedExempt(k[2], VersionToString(k[3]), k[1]) \in Unwrap(unused)

\* C25 as stated. Hints only for Missing and Violation: a Fail whose reason is
\* RecursionLimitReached has no prev_version.
C25_Original ==
    \A i \in DOMAIN tasks : Checked(i) =>
        \A f \in FailsOf(i) :
            f.reason = RecursionLimitReached => f.prev_version = None

\* C25, amended: a Fail of any reason carries what find_prev returns, the
\* nearest earlier audited version that validates with one unit less than the
\* configured budget, and nothing when the budget is 0.
C25_HintForEveryReason ==
    \A i \in DOMAIN tasks : Checked(i) =>
        \A f \in FailsOf(i) :
            f.prev_version =
                IF recursion_limit = 0 THEN None
                ELSE NearestValidated(dependencies[i].name, dependencies[i].version,
                                      f.needed, recursion_limit - 1)

\* C25 happens: the delta hop from version 10 used up the budget, and the Fail
\* names the audited version 1 as its hint.
C25_Witness ==
    \E i \in DOMAIN tasks :
        /\ Checked(i)
        /\ recursion_limit = 1
        /\ Fail("safe-to-deploy", RecursionLimitReached, Some(VersionNew(V1)))
              \in FailsOf(i)

(***************************************************************************)
(* Properties of the implication steps (SpecCall)                          *)
(***************************************************************************)

\* The recorded call got past the violation test, the trust root lookup, the
\* budget test and the delta lookup.
AtImplication ==
    /\ IsSome(call)
    /\ CallKey \notin rules.violations
    /\ ~IsSome(TrustRootLookup(rules, Unwrap(call).name, Unwrap(call).version,
                               Unwrap(call).criteria, Unwrap(call).implied_criteria))
    /\ Unwrap(call).recursion_limit >= 1
    /\ ~IsSome(TrustDeltaLookup(rules, Unwrap(call).name, Unwrap(call).version,
                                Unwrap(call).criteria, Unwrap(call).implied_criteria))

\* The members of S that validate at the name and version of the recorded call
\* with its criteria pushed on the chain and one unit of budget less.
ValidatingMembers(S) ==
    {m \in S : check_criteria(Rules0, Unwrap(call).name, Unwrap(call).version, m,
                              <<Unwrap(call).criteria>> \o Unwrap(call).implied_criteria,
                              Unwrap(call).recursion_limit - 1).result = Validated}

\* C26. implied_all is never vacuous: a call that reaches the implication steps
\* returns Validated when the implied_all set of its criteria is not empty and
\* every member validates, or when some implied_any member validates, and
\* Missing otherwise; an empty or undeclared implied_all validates nothing.
C26_ImpliedAll ==
    AtImplication =>
        LET c == Unwrap(call).criteria
            all == IF c \in DOMAIN rules.implied_all THEN rules.implied_all[c] ELSE {}
            any == IF c \in DOMAIN rules.implied_any THEN rules.implied_any[c] ELSE {}
        IN /\ Unwrap(call).outcome.result \in {Validated, Missing}
           /\ Unwrap(call).outcome.result = Validated
                <=> \/ all # {} /\ ValidatingMembers(all) = all
                    \/ ValidatingMembers(any) # {}

\* C26 happens: the criteria of the call is declared with an empty implied_all,
\* another criteria has a TrustRoot at the key, and the call returns Missing.
C26_Witness ==
    /\ AtImplication
    /\ Unwrap(call).criteria \in DOMAIN rules.implied_all
    /\ rules.implied_all[Unwrap(call).criteria] = {}
    /\ \E k \in DOMAIN rules.trust_roots :
          k[2] = Unwrap(call).name /\ k[3] = Unwrap(call).version
    /\ Unwrap(call).outcome.result = Missing

(***************************************************************************)
(* Properties of a second run on the rewritten config (Spec)               *)
(***************************************************************************)

\* The check run again with the same switches on the same dependencies, ledger
\* and budget, the config file holding these exemptions: the receipts and the
\* unused-exemption set.
Rerun(exempt) ==
    LET again == [config EXCEPT !.exempt = IF ignore_exempts THEN EmptyMap ELSE exempt]
        seq == Sequential(RulesNew(again, audits),
                          [i \in DOMAIN tasks |-> i],
                          [i \in DOMAIN tasks |-> None])
    IN [receipts |-> seq.receipts, unused |-> unused_exempts(seq.rules)]

\* C27. Ratchet preserves results: with the unused exemptions of a run removed
\* from the config, a second run on the same dependencies, ledger and budget
\* gives the same receipts (status, reasons and hints) and an empty
\* unused-exemption set.
C27_RatchetPreserves ==
    phase = "joined" =>
        LET ratcheted == ratchet_exempts(Unwrap(unused), toml)
            left == ExemptOf(ratcheted.toml)
            removed == \A u \in Unwrap(unused) :
                          \/ u.name \notin DOMAIN left
                          \/ \A a \in left[u.name] :
                                ~(a.version = Some(u.version) /\ a.criteria = u.criteria)
            again == Rerun(left)
        IN (ratcheted.error = None /\ removed) =>
              /\ again.receipts = Unwrap(receipts)
              /\ again.unused = {}

\* C27 happens: the run reported an unused exemption, the ratchet removed it
\* and kept another one, and a receipt failed with a hint.
C27_Witness ==
    /\ phase = "joined"
    /\ Unwrap(unused) # {}
    /\ ratchet_exempts(Unwrap(unused), toml).error = None
    /\ ExemptOf(ratchet_exempts(Unwrap(unused), toml).toml) # <<>>
    /\ \A u \in Unwrap(unused) :
          \A n \in DOMAIN ratchet_exempts(Unwrap(unused), toml).toml.entries :
             \A a \in ratchet_exempts(Unwrap(unused), toml).toml.entries[n].tables :
                ~(n = u.name /\ a.version = Some(u.version) /\ a.criteria = u.criteria)
    /\ \E i \in DOMAIN tasks : \E f \in FailsOf(i) : IsSome(f.prev_version)

(***************************************************************************)
(* Properties of a second run after --add-exempts (SpecReport)             *)
(***************************************************************************)

\* --add-exempts wrote the config and the command exited with code 3.
Added == Exited /\ Unwrap(report).exit_code = 3

\* The exemption --add-exempts writes for the Fail f of dependency i, as the
\* unused-exemption set names it.
AddedFor(i, f) ==
    UnusedExempt(dependencies[i].name, VersionToString(dependencies[i].version),
                 f.needed)

\* C28 as stated. Added exemptions remedy the failures: the second run, on the
\* config --add-exempts wrote, gives Passed for every dependency and reports
\* none of the added exemptions as unused.
C28_Original ==
    Added =>
        LET again == Rerun(ExemptOf(Unwrap(report).file.toml))
        IN \A i \in DOMAIN dependencies :
              /\ again.receipts[i].status = Passed
              /\ \A f \in FailsOf(i) : AddedFor(i, f) \notin again.unused

\* A Violation is recorded for the very key of the Fail f of dependency i.
OwnViolation(i, f) ==
    Key(f.needed, dependencies[i].name, dependencies[i].version) \in rules.violations

\* C28, amended: in a run without --ignore-exempts, the second run gives Passed
\* for exactly the dependencies that have no Violation recorded for (needed
\* criterion, name, version) of one of their Fails, and an exemption added for
\* a Fail without such a Violation is not reported as unused; a Fail with such
\* a Violation is there again in the second run, with reason Violation.  With
\* --ignore-exempts the second run ignores the added exemptions: it gives the
\* receipts of the first and reports no exemption.
C28_AddedExemptions ==
    Added =>
        LET again == Rerun(ExemptOf(Unwrap(report).file.toml))
        IN IF ignore_exempts
           THEN again.receipts = Unwrap(receipts) /\ again.unused = {}
           ELSE
           \A i \in DOMAIN dependencies :
              /\ again.receipts[i].status = Passed
                    <=> \A f \in FailsOf(i) : ~OwnViolation(i, f)
              /\ \A f \in FailsOf(i) :
                    IF OwnViolation(i, f)
                    THEN /\ f.reason = Violation
                         /\ \E j \in DOMAIN again.receipts[i].status.fails :
                               /\ again.receipts[i].status.fails[j].needed = f.needed
                               /\ again.receipts[i].status.fails[j].reason = Violation
                    ELSE AddedFor(i, f) \notin again.unused

\* C28 happens: one dependency failed with Missing and passes in the second
\* run, the other failed on a Violation of its own version and fails again,
\* and the exemption added for it is reported as unused.
C28_Witness ==
    /\ Added
    /\ ~ignore_exempts
    /\ Len(dependencies) = 2
    /\ \E i, j \in DOMAIN dependencies :
          /\ \E f \in FailsOf(i) : f.reason = Missing
          /\ \A f \in FailsOf(i) : ~OwnViolation(i, f)
          /\ \E f \in FailsOf(j) : OwnViolation(j, f)
          /\ LET again == Rerun(ExemptOf(Unwrap(report).file.toml))
             IN /\ Unwrap(receipts)[i].status # Passed
                /\ again.receipts[i].status = Passed
                /\ again.receipts[j].status # Passed
                /\ \E f \in FailsOf(j) : AddedFor(j, f) \in again.unused

\* The exemption added for a Fail on a Violation of its own version is matched
\* in the second run by the check of another version, which walks down a delta
\* to the version and finds the exemption under an implying criterion.
AddedMatchedBelow ==
    /\ Added
    /\ ~ignore_exempts
    /\ \E i, j \in DOMAIN dependencies :
          /\ i # j
          /\ \E f \in FailsOf(i) :
                /\ OwnViolation(i, f)
                /\ AddedFor(i, f)
                      \notin Rerun(ExemptOf(Unwrap(report).file.toml)).unused
                /\ dependencies[i].name \notin DOMAIN config.exempt
          /\ Unwrap(receipts)[j].status = Passed

\* The exemption added for a Fail on a Violation of its own version stands
\* beside an exemption of the same version with allow-unused, and the second
\* run reports neither.
AddedBesideAllowUnused ==
    /\ Added
    /\ ~ignore_exempts
    /\ \E i \in DOMAIN dependencies : \E f \in FailsOf(i) :
          /\ OwnViolation(i, f)
          /\ dependencies[i].name \in DOMAIN config.exempt
          /\ \E a \in config.exempt[dependencies[i].name] :
                /\ a.allow_unused
                /\ a.criteria = f.needed
                /\ a.version = Some(VersionToString(dependencies[i].version))
          /\ Rerun(ExemptOf(Unwrap(report).file.toml)).unused = {}

(***************************************************************************)
(* Properties of the budget (SpecCall)                                     *)
(***************************************************************************)

\* The result of the recorded call made again with budget b.
WithBudget(b) ==
    check_criteria(Rules0, Unwrap(call).name, Unwrap(call).version,
                   Unwrap(call).criteria, Unwrap(call).implied_criteria, b).result

\* C29. Budget monotonicity: a call that returns Validated returns Validated
\* with every larger budget, a call that returns Violation does not return
\* Validated with any larger budget, and a receipt that is Passed is Passed
\* with every larger --recursion-limit.
C29_BudgetMonotonicity ==
    IsSome(call) =>
        \A b \in (Unwrap(call).recursion_limit + 1)..(MaxLimit + 1) :
            /\ Unwrap(call).outcome.result = Validated => WithBudget(b) = Validated
            /\ Unwrap(call).outcome.result = Violation => WithBudget(b) # Validated
            /\ (/\ Unwrap(call).implied_criteria = <<>>
                /\ Unwrap(call).outcome.result = Validated
                /\ check(Rules0, Unwrap(call).name, Unwrap(call).version,
                         Unwrap(call).recursion_limit).receipt.status = Passed)
                 => check(Rules0, Unwrap(call).name, Unwrap(call).version,
                          b).receipt.status = Passed

\* C29 happens: the call validated with budget 1, which budget 0 did not
\* allow, and validates with the larger budgets.
C29_Witness ==
    /\ IsSome(call)
    /\ Unwrap(call).recursion_limit = 1
    /\ Unwrap(call).outcome.result = Validated
    /\ Unwrap(call).outcome.depth = 2
    /\ WithBudget(0) = RecursionLimitReached
    /\ WithBudget(MaxLimit + 1) = Validated

(***************************************************************************)
(* Properties of the version text (SpecVersion)                            *)
(***************************************************************************)

\* The number of characters of the parts of v.
RECURSIVE PartChars(_)
PartChars(v) ==
    IF v = <<>> THEN 0
    ELSE (IF Head(v).kind = "Dash" THEN 1 ELSE Len(Head(v).s)) + PartChars(Tail(v))

\* The unused-exemption set of a run without dependencies on a config that
\* exempts version s of yip, and a ledger that audits the versions in ledger.
UnusedOf(s, ledger) ==
    unused_exempts(RulesNew(
        ConfigOf(Exempts({"yip"}, {"safe-to-deploy"}, {s}, {FALSE})),
        AuditsFileOf(VersionAudits({"yip"}, {"safe-to-deploy"}, ledger))))

\* C30. Version text round-trip: a parsed version is displayed as the string it
\* was parsed from, two different strings parse to different versions that do
\* not compare Equal, every character is in one part, no two number runs and no
\* two string runs are adjacent, and the unused-exemption entry of an exemption
\* holds the version string it was declared with.
C30_RoundTrip ==
    Compared =>
        LET o == Unwrap(call.out)
        IN /\ o.shown = call.a
           /\ VersionToString(o.b) = call.b
           /\ call.a # call.b => (o.a # o.b /\ o.ab # Equal)
           /\ PartChars(o.a) = Len(call.a)
           /\ \A i \in 1..(Len(o.a) - 1) :
                 o.a[i].kind = o.a[i + 1].kind => o.a[i].kind = "Dash"
           /\ UnusedOf(call.a, {}) = {UnusedExempt("yip", call.a, "safe-to-deploy")}
           /\ UnusedOf(call.a, {call.a, call.b})
                 = {UnusedExempt("yip", call.a, "safe-to-deploy")}

\* C30 happens: a string with a number run, a string run and a dash came back
\* from Display as it was, next to another string of the same length.
C30_Witness ==
    /\ Compared
    /\ {Unwrap(call.out).a[i].kind : i \in DOMAIN Unwrap(call.out).a}
          = {"Number", "String", "Dash"}
    /\ Unwrap(call.out).shown = call.a
    /\ call.a # call.b
    /\ Len(call.a) = Len(call.b)
====
